---- MODULE Spec2Model ----
(***************************************************************************)
(* Model of the Senpex agent: the orchestrator of src/agent-core/main.py   *)
(* (session store, tool log, process_message and the management            *)
(* endpoints) and the delivery tools of src/mcp.py.                        *)
(*                                                                         *)
(* Python values are modelled as follows.                                  *)
(*   - A message text is a sequence of one-character strings.              *)
(*   - Any other text is a sequence of pieces: an f-string is the          *)
(*     sequence of its literal pieces and its interpolated values, and a   *)
(*     text that is searched for a word is cut into its words.             *)
(*   - None is the value None below; a value whose Python type matters is  *)
(*     a tagged record [t |-> type, v |-> value].                          *)
(***************************************************************************)
EXTENDS Integers, Sequences, FiniteSets, TLC

(***************************************************************************)
(* Bounds of the model.                                                    *)
(***************************************************************************)
MaxCalls == 2
MaxLimit == 1
MaxTokens == 4
MaxTime == 1
MaxTimedCalls == 1

None == "<None>"

(***************************************************************************)
(* Text helpers.                                                           *)
(***************************************************************************)
Digits == {"0", "1", "2", "3", "4", "5", "6", "7", "8", "9"}

LowerLetters == {"a", "b", "c", "d", "e", "f", "g", "h", "i", "j", "k", "l", "m",
                 "n", "o", "p", "q", "r", "s", "t", "u", "v", "w", "x", "y", "z"}

UpperLetters == {"H", "P", "T"}

\* str.lower() on one character (the upper-case letters the inputs use)
LowerChar(c) ==
    CASE c = "H" -> "h"
      [] c = "P" -> "p"
      [] c = "T" -> "t"
      [] OTHER -> c

\* str.lower()
Lower(s) == [i \in 1..Len(s) |-> LowerChar(s[i])]

\* Python's `w in s` on strings: w occurs in s as a contiguous substring
HasSubstring(s, w) ==
    \E i \in 1..(Len(s) - Len(w) + 1) :
        \A j \in 1..Len(w) : s[i + j - 1] = w[j]

\* `x in words` on a text modelled as a sequence of words
HasWord(text, w) == \E i \in 1..Len(text) : text[i] = w

\* the regular expression class \w
IsWordChar(c) == c \in Digits \cup LowerLetters \cup UpperLetters \cup {"_"}

(***************************************************************************)
(* Message texts the clients send.                                         *)
(***************************************************************************)
MsgHello == <<"H", "e", "l", "l", "o">>
MsgThanks == <<"t", "h", "a", "n", "k", "s">>
MsgTrack == <<"t", "r", "a", "c", "k", " ", "9", "8", "7", "6", "5", "4">>
MsgStatusGlued == <<"s", "t", "a", "t", "u", "s", " ", "n", "o", "1", "2", "3", "4", "5", "6">>
MsgPriceTrack == <<"P", "r", "i", "c", "e", " ", "t", "r", "a", "c", "k">>

\* every text above, for the classifier and the extractor
Messages == {MsgHello, MsgThanks, MsgTrack, MsgStatusGlued, MsgPriceTrack}

\* the texts the clients of the agent specification send
AgentMessages == {MsgThanks, MsgTrack}

(***************************************************************************)
(* analyze_intent: keyword rules in priority order.                        *)
(***************************************************************************)
QuoteWords == {<<"q", "u", "o", "t", "e">>, <<"p", "r", "i", "c", "e">>,
               <<"c", "o", "s", "t">>,
               <<"h", "o", "w", " ", "m", "u", "c", "h">>}

TrackWords == {<<"t", "r", "a", "c", "k">>, <<"s", "t", "a", "t", "u", "s">>,
               <<"w", "h", "e", "r", "e", " ", "i", "s">>}

TestWords == {<<"p", "i", "n", "g">>, <<"t", "e", "s", "t">>,
              <<"h", "e", "l", "l", "o">>}

\* a variant that tries the tracking rule before the quote rule
analyze_intent_TrackFirst(message) ==
    LET message_lower == Lower(message) IN
    IF \E word \in TrackWords : HasSubstring(message_lower, word)
    THEN [intent |-> "track_order", tool |-> "track_order", confidence |-> 8]
    ELSE IF \E word \in QuoteWords : HasSubstring(message_lower, word)
    THEN [intent |-> "get_quote", tool |-> "get_dropoff_quote", confidence |-> 8]
    ELSE IF \E word \in TestWords : HasSubstring(message_lower, word)
    THEN [intent |-> "test", tool |-> "ping", confidence |-> 9]
    ELSE [intent |-> "general", tool |-> None, confidence |-> 5]

analyze_intent(message) ==
    LET message_lower == Lower(message) IN
    IF \E word \in QuoteWords : HasSubstring(message_lower, word)
    THEN [intent |-> "get_quote", tool |-> "get_dropoff_quote", confidence |-> 8]
    ELSE IF \E word \in TrackWords : HasSubstring(message_lower, word)
    THEN [intent |-> "track_order", tool |-> "track_order", confidence |-> 8]
    ELSE IF \E word \in TestWords : HasSubstring(message_lower, word)
    THEN [intent |-> "test", tool |-> "ping", confidence |-> 9]
    ELSE [intent |-> "general", tool |-> None, confidence |-> 5]

(***************************************************************************)
(* re.search(r'\b\d{5,}\b', message): the leftmost match.  A match starts  *)
(* at a word boundary, takes five or more digits greedily and must end at  *)
(* a word boundary; giving digits back never helps, because a digit        *)
(* followed by a digit is no boundary.                                     *)
(***************************************************************************)
\* s[i..j] is a match of \b\d{5,}\b
IsOrderMatch(s, i, j) ==
    /\ j - i + 1 >= 5
    /\ \A k \in i..j : s[k] \in Digits
    /\ (i = 1 \/ ~IsWordChar(s[i - 1]))
    /\ (j = Len(s) \/ ~IsWordChar(s[j + 1]))

HasOrderMatch(s) == \E i \in 1..Len(s) : \E j \in i..Len(s) : IsOrderMatch(s, i, j)

\* order_match.group() of the leftmost match
OrderMatch(s) ==
    LET i == CHOOSE a \in 1..Len(s) :
                 /\ \E j \in a..Len(s) : IsOrderMatch(s, a, j)
                 /\ \A b \in 1..(a - 1) : ~\E j \in b..Len(s) : IsOrderMatch(s, b, j)
        j == CHOOSE b \in i..Len(s) : IsOrderMatch(s, i, b)
    IN SubSeq(s, i, j)

FallbackOrderId == <<"1", "2", "3", "4", "5">>

\* analyze_intent on the texts of the model, evaluated once
IntentOf == [message \in Messages |-> analyze_intent(message)]

\* process_message, "Extract arguments based on tool"
ExtractArguments(tool_name, message) ==
    CASE tool_name = "ping" -> <<>>
      [] tool_name = "get_dropoff_quote" ->
            [user_email |-> "demo@example.com",
             pickup_addr |-> "123 Market St, San Francisco, CA",
             dropoff_addr |-> "456 Main St, Los Angeles, CA",
             recipient_name |-> "John Doe",
             recipient_phone |-> "+1234567890"]
      [] tool_name = "track_order" ->
            [order_id |-> IF HasOrderMatch(message) THEN OrderMatch(message)
                          ELSE FallbackOrderId]
      [] OTHER -> <<>>

(***************************************************************************)
(* Python and JSON values.                                                 *)
(***************************************************************************)
PyStr(words) == [t |-> "str", v |-> words]

PyNone == [t |-> "NoneType"]

JObj(fields) == [t |-> "dict", v |-> fields]

JArr(items) == [t |-> "list", v |-> items]

JStr(s) == [t |-> "str", v |-> <<s>>]

JNum(n) == [t |-> "int", v |-> n]

\* the arguments extracted from the texts of the model, evaluated once
ArgumentsOf ==
    [message \in Messages |->
        IF IntentOf[message].tool = None THEN <<>>
        ELSE ExtractArguments(IntentOf[message].tool, message)]

\* `key in d` for a dict d
HasKey(d, key) == key \in DOMAIN d.v

(***************************************************************************)
(* State of the agent API (src/agent-core/main.py).                        *)
(***************************************************************************)
VARIABLES
    sessions,     \* the session store: session id -> session dict
    detached,     \* session dicts deleted from the store that a suspended
                  \* process_message still holds a reference to
    tool_logs,    \* the tool log, a list of records
    calls,        \* the process_message coroutines, by call number
    replies,      \* the last request answered and its response
    mcp_posts,    \* the POSTs sent to the MCP server, in order
    clock,        \* the wall clock datetime.now() reads
    uuids         \* the number of uuid4() values drawn so far

agentVars == <<sessions, detached, tool_logs, calls, replies, mcp_posts, clock, uuids>>

(***************************************************************************)
(* State of the delivery tools (src/mcp.py).                               *)
(***************************************************************************)
VARIABLES
    SENPEX_CLIENT_ID,   \* os.getenv("SENPEX_CLIENT_ID", "")
    SENPEX_SECRET_ID,   \* os.getenv("SENPEX_SECRET_ID", "")
    invocation,         \* the tool coroutine: its position, arguments, result
    outbound,           \* the HTTP requests the coroutine has sent, in order
    previous            \* the name of the tool invoked before this one

toolVars == <<SENPEX_CLIENT_ID, SENPEX_SECRET_ID, invocation, outbound, previous>>

(***************************************************************************)
(* One message text on its way through analyze_intent and the argument     *)
(* extraction of process_message, taken apart from the session store.      *)
(***************************************************************************)
VARIABLE pipeline

vars == <<agentVars, toolVars, pipeline>>

Calls == 1..MaxCalls

\* str(uuid.uuid4()): a value never drawn before
UuidNames == <<"u01", "u02", "u03", "u04", "u05", "u06", "u07", "u08", "u09",
               "u10", "u11", "u12", "u13", "u14", "u15", "u16">>

uuid4(n) == UuidNames[n + 1]

\* the identifiers a client may put in a request
StaleId == "bogus"

EmptyId == ""

DefaultUserId == "anonymous"

\* class MessageRequest
MessageRequest(message, session_id, user_id) ==
    [message |-> message, session_id |-> session_id, user_id |-> user_id]

NoRequest == MessageRequest(<<>>, None, None)

\* Python truthiness of an Optional[str]
Truthy(x) == x # None /\ x # ""

(***************************************************************************)
(* The replies of the MCP server to POST /mcp/tools/{tool_name}.           *)
(***************************************************************************)
McpTextPong == JObj([content |-> JArr(<<JObj([type |-> JStr("text"), text |-> JStr("pong")])>>)])
McpNullText == JObj([content |-> JArr(<<JObj([type |-> JStr("text"), text |-> PyNone])>>)])
McpEmptyContent == JObj([content |-> JArr(<<>>)])

\* bodies of each shape call_mcp_tool tells apart, each with its str(data)
McpBodies ==
    {[data |-> McpTextPong, repr |-> "{'content': [{'type': 'text', 'text': 'pong'}]}"],
     [data |-> McpNullText, repr |-> "{'content': [{'type': 'text', 'text': None}]}"],
     [data |-> McpEmptyContent, repr |-> "{'content': []}"],
     [data |-> JObj([content |-> JArr(<<JObj([type |-> JStr("image")])>>)]),
      repr |-> "{'content': [{'type': 'image'}]}"],
     [data |-> JObj([content |-> JArr(<<JStr("pong")>>)]), repr |-> "{'content': ['pong']}"],
     [data |-> JObj([content |-> JStr("pong")]), repr |-> "{'content': 'pong'}"],
     [data |-> JObj([detail |-> JStr("Not Found")]), repr |-> "{'detail': 'Not Found'}"],
     [data |-> JArr(<<>>), repr |-> "[]"],
     [data |-> JNum(7), repr |-> "7"]}

\* str(data)
Repr(data) == (CHOOSE body \in McpBodies : body.data = data).repr

McpReply(kind, data) == [kind |-> kind, data |-> data]

\* the replies the MCP server gives in the agent specification: one of
\* each failure and a body of each kind of outcome
AgentReplies ==
    {McpReply(k, PyNone) : k \in {"timeout", "connect_error", "status_500", "not_json"}}
        \cup {McpReply("json", d) : d \in {McpTextPong, McpNullText, McpEmptyContent}}

\* f"Error calling tool {tool_name}: {str(e)}"; the text of the exception
\* is one opaque word
ErrorCallingTool(tool_name, e) ==
    PyStr(<<"Error calling tool ", tool_name, ": ", "str(e)">>)

(***************************************************************************)
(* call_mcp_tool: the value it returns for a reply of the MCP server.      *)
(* Everything from the POST on runs inside try / except Exception.         *)
(***************************************************************************)
call_mcp_tool(tool_name, reply) ==
    LET data == reply.data IN
    CASE reply.kind = "timeout" -> ErrorCallingTool(tool_name, "ReadTimeout")
      [] reply.kind = "connect_error" -> ErrorCallingTool(tool_name, "ConnectError")
      [] reply.kind = "status_500" -> ErrorCallingTool(tool_name, "HTTPStatusError")
      [] reply.kind = "not_json" -> ErrorCallingTool(tool_name, "JSONDecodeError")
      [] OTHER ->
            \* `"content" in data` on an int raises TypeError
            IF data.t = "int" THEN ErrorCallingTool(tool_name, "TypeError")
            ELSE IF data.t = "dict" /\ HasKey(data, "content")
                    /\ data.v.content.t = "list"
            THEN LET content == data.v.content.v IN
                 IF Len(content) = 0 THEN ErrorCallingTool(tool_name, "IndexError")
                 ELSE IF content[1].t # "dict"
                 THEN ErrorCallingTool(tool_name, "AttributeError")
                 ELSE IF HasKey(content[1], "text")
                 THEN \* .get("text", ...) returns the value whatever its type
                      IF content[1].v.text.t = "str"
                      THEN PyStr(content[1].v.text.v)
                      ELSE content[1].v.text
                 ELSE PyStr(<<Repr(data)>>)
            ELSE PyStr(<<Repr(data)>>)

(***************************************************************************)
(* Session and log records.                                                *)
(***************************************************************************)
Message(role, content, timestamp) ==
    [role |-> role, content |-> content, timestamp |-> timestamp]

\* the dict create_session stores
NewSession(user_id, created_at, last_activity) ==
    [user_id |-> user_id,
     created_at |-> created_at,
     messages |-> <<>>,
     message_count |-> 0,
     last_activity |-> last_activity]

\* the dict log_tool_execution builds
LogEntry(id, session_id, tool_name, arguments, result, timestamp) ==
    [id |-> id,
     tool_name |-> tool_name,
     arguments |-> arguments,
     result |-> result,
     timestamp |-> timestamp,
     session_id |-> session_id]

\* a variant that builds the record and forgets to append it
log_tool_execution_NoAppend(logs, entry) == logs

\* a variant that rotates the log: the oldest record makes room for the new
log_tool_execution_Rotates(logs, entry) ==
    IF Len(logs) = 0 THEN <<entry>> ELSE Append(Tail(logs), entry)

\* log_tool_execution: tool_logs.append(log_entry)
log_tool_execution(logs, entry) == Append(logs, entry)

\* a variant that forgets `session["message_count"] += 1`
AppendUserMessage_NoCount(session, message, t_activity, t_message) ==
    [session EXCEPT
        !.last_activity = t_activity,
        !.messages = Append(@, Message("user", PyStr(message), t_message))]

\* "Update session": last_activity, message_count and the user message
AppendUserMessage(session, message, t_activity, t_message) ==
    [session EXCEPT
        !.last_activity = t_activity,
        !.message_count = @ + 1,
        !.messages = Append(@, Message("user", PyStr(message), t_message))]

\* a variant that puts the assistant message at the head of the transcript
AppendAssistantMessage_AtHead(session, response_text, t_message) ==
    [session EXCEPT
        !.messages = <<Message("assistant", response_text, t_message)>> \o @]

\* a variant that stores the answer under the role of the user
AppendAssistantMessage_AsUser(session, response_text, t_message) ==
    [session EXCEPT
        !.messages = Append(@, Message("user", response_text, t_message))]

\* "Store assistant response"
AppendAssistantMessage(session, response_text, t_message) ==
    [session EXCEPT
        !.messages = Append(@, Message("assistant", response_text, t_message))]

\* f"I understand you're asking about: {request.message}. How can I help
\* you with delivery services?"
GenericResponse(message) ==
    PyStr(<<"I understand you're asking about: ">> \o message
          \o <<". How can I help you with delivery services?">>)

\* what a request ends with: a response model, or an exception that the
\* framework turns into an error status
HTTPException(status_code) == [t |-> "HTTPException", status_code |-> status_code]

ValidationError == [t |-> "ValidationError", status_code |-> 500]

NoResult == [t |-> "pending"]

IsFault(result) == result.t \in {"HTTPException", "ValidationError"}

\* MessageResponse(response=..., session_id=..., tool_calls=..., timestamp=...):
\* the model validates that response is a str
MessageResponse(response_text, session_id, tool_calls_log, timestamp) ==
    IF response_text.t # "str" THEN ValidationError
    ELSE [t |-> "MessageResponse",
          response |-> response_text,
          session_id |-> session_id,
          tool_calls |-> IF Len(tool_calls_log) > 0 THEN JArr(tool_calls_log) ELSE PyNone,
          timestamp |-> timestamp]

\* the state of one process_message coroutine: its position and its locals
CallState(pc, request, session_id, tool_name, arguments) ==
    [pc |-> pc, request |-> request, session_id |-> session_id,
     tool_name |-> tool_name, arguments |-> arguments]

IdleCall == CallState("idle", NoRequest, None, None, <<>>)

\* a coroutine that has returned or raised; its locals are gone
DoneCall(session_id) == CallState("done", NoRequest, session_id, None, <<>>)

\* the calls are started in the order of their numbers
NextCall == IF \E c \in Calls : calls[c].pc = "idle"
            THEN CHOOSE c \in Calls : calls[c].pc = "idle"
                                       /\ \A d \in Calls : d < c => calls[d].pc # "idle"
            ELSE 0

\* the session dict a coroutine holds a reference to
SessionOf(sid) == IF sid \in DOMAIN sessions THEN sessions[sid] ELSE detached[sid]

\* the session ids suspended coroutines other than c refer to
HeldBy(others) == {calls[d].session_id : d \in {e \in others : calls[e].pc = "awaiting"}}

\* a function with the key k removed
Without(f, k) == [x \in DOMAIN f \ {k} |-> f[x]]

\* a function with the key k set to v
\* a variant where every key refers to the one dict that is written
With_Aliased(f, k, v) == [x \in DOMAIN f \cup {k} |-> v]

With(f, k, v) == [x \in DOMAIN f \cup {k} |-> IF x = k THEN v ELSE f[x]]

\* the last management request and what it returned
Reply(op, arg, result) == [op |-> op, arg |-> arg, result |-> result]

AgentInit ==
    /\ sessions = <<>>
    /\ detached = <<>>
    /\ tool_logs = <<>>
    /\ calls = [c \in Calls |-> IdleCall]
    /\ replies = Reply("none", None, NoResult)
    /\ mcp_posts = <<>>
    /\ clock = 0
    /\ uuids = 0

(***************************************************************************)
(* POST /agent/message, process_message.  The coroutine runs without       *)
(* suspension up to `await call_mcp_tool(...)`; a message that selects no  *)
(* tool runs to its end in that one step.                                  *)
(***************************************************************************)
\* the session ids a client may supply: none, the empty string, an id never
\* issued, and every id issued so far (deleted ones included)
SuppliedIds ==
    {None, EmptyId, StaleId} \cup DOMAIN sessions
        \cup ({calls[d].session_id : d \in Calls} \ {None})

\* `request.session_id or create_session(request.user_id)`: is a session created
CreatesSession(request) == ~Truthy(request.session_id)

\* a variant that calls create_session before it looks at the supplied id
ProcessMessage_CreatesEagerly(c, request, t1, t2, t3, t4, t5, t6) ==
    /\ c = NextCall
    /\ calls[c].pc = "idle"
    /\ t1 <= t2 /\ t2 <= t3 /\ t3 <= t4 /\ t4 <= t5 /\ t5 <= t6
    /\ LET created == CreatesSession(request)
           session_id == IF created THEN uuid4(uuids) ELSE request.session_id
           store == IF created
                    THEN With(sessions, session_id, NewSession(request.user_id, t1, t2))
                    ELSE sessions
       IN
       IF session_id \notin DOMAIN store
       THEN \* raise HTTPException(status_code=404, detail="Session not found")
            /\ calls' = [calls EXCEPT ![c] = DoneCall(None)]
            /\ replies' = Reply("process_message", request, HTTPException(404))
            /\ sessions' = With(sessions, uuid4(uuids), NewSession(request.user_id, t1, t2))
            /\ uuids' = uuids + 1
            /\ UNCHANGED <<detached, tool_logs, mcp_posts, clock>>
       ELSE LET session == AppendUserMessage(store[session_id], request.message, t3, t4)
                intent_analysis == IntentOf[request.message]
                tool_name == intent_analysis.tool
            IN
            /\ uuids' = IF created THEN uuids + 1 ELSE uuids
            /\ UNCHANGED <<detached, tool_logs>>
            /\ IF tool_name # None
               THEN LET arguments == ArgumentsOf[request.message] IN
                    \* suspended in `await call_mcp_tool(tool_name, arguments)`
                    /\ sessions' = With(store, session_id, session)
                    /\ calls' = [calls EXCEPT ![c] =
                                    CallState("awaiting", request, session_id,
                                              tool_name, arguments)]
                    /\ UNCHANGED replies
                    /\ mcp_posts' = Append(mcp_posts,
                                           [call |-> c, tool_name |-> tool_name,
                                            arguments |-> arguments])
                    /\ clock' = t4
               ELSE LET response_text == GenericResponse(request.message) IN
                    /\ sessions' = With(store, session_id,
                                        AppendAssistantMessage(session, response_text, t5))
                    /\ calls' = [calls EXCEPT ![c] = DoneCall(session_id)]
                    /\ replies' = Reply("process_message", request,
                                        MessageResponse(response_text, session_id,
                                                        <<>>, t6))
                    /\ UNCHANGED mcp_posts
                    /\ clock' = t6

ProcessMessage(c, request, t1, t2, t3, t4, t5, t6) ==
    /\ c = NextCall
    /\ calls[c].pc = "idle"
    /\ t1 <= t2 /\ t2 <= t3 /\ t3 <= t4 /\ t4 <= t5 /\ t5 <= t6
    /\ LET created == CreatesSession(request)
           session_id == IF created THEN uuid4(uuids) ELSE request.session_id
           store == IF created
                    THEN With(sessions, session_id, NewSession(request.user_id, t1, t2))
                    ELSE sessions
       IN
       IF session_id \notin DOMAIN store
       THEN \* raise HTTPException(status_code=404, detail="Session not found")
            /\ calls' = [calls EXCEPT ![c] = DoneCall(None)]
            /\ replies' = Reply("process_message", request, HTTPException(404))
            /\ UNCHANGED <<sessions, detached, tool_logs, mcp_posts, clock, uuids>>
       ELSE LET session == AppendUserMessage(store[session_id], request.message, t3, t4)
                intent_analysis == IntentOf[request.message]
                tool_name == intent_analysis.tool
            IN
            /\ uuids' = IF created THEN uuids + 1 ELSE uuids
            /\ UNCHANGED <<detached, tool_logs>>
            /\ IF tool_name # None
               THEN LET arguments == ArgumentsOf[request.message] IN
                    \* suspended in `await call_mcp_tool(tool_name, arguments)`
                    /\ sessions' = With(store, session_id, session)
                    /\ calls' = [calls EXCEPT ![c] =
                                    CallState("awaiting", request, session_id,
                                              tool_name, arguments)]
                    /\ UNCHANGED replies
                    /\ mcp_posts' = Append(mcp_posts,
                                           [call |-> c, tool_name |-> tool_name,
                                            arguments |-> arguments])
                    /\ clock' = t4
               ELSE LET response_text == GenericResponse(request.message) IN
                    /\ sessions' = With(store, session_id,
                                        AppendAssistantMessage(session, response_text, t5))
                    /\ calls' = [calls EXCEPT ![c] = DoneCall(session_id)]
                    /\ replies' = Reply("process_message", request,
                                        MessageResponse(response_text, session_id,
                                                        <<>>, t6))
                    /\ UNCHANGED mcp_posts
                    /\ clock' = t6

(***************************************************************************)
(* call_mcp_tool returns with the reply of the MCP server (or its          *)
(* timeout) and process_message runs to its end: log, assistant message,   *)
(* response.                                                               *)
(***************************************************************************)
\* a variant that stores the assistant message before it writes the log record
ToolReturns_AssistantBeforeLog(c, reply, t1, t2, t3) ==
    /\ calls[c].pc = "awaiting"
    /\ t1 <= t2 /\ t2 <= t3
    /\ LET session_id == calls[c].session_id
           tool_name == calls[c].tool_name
           arguments == calls[c].arguments
           tool_result == call_mcp_tool(tool_name, reply)
           session == AppendAssistantMessage(SessionOf(session_id), tool_result, t1)
           log_entry == LogEntry(uuid4(uuids), session_id, tool_name, arguments,
                                 tool_result, t2)
       IN
       /\ tool_logs' = log_tool_execution(tool_logs, log_entry)
       /\ uuids' = uuids + 1
       /\ IF session_id \in DOMAIN sessions
          THEN /\ sessions' = With(sessions, session_id, session)
               /\ UNCHANGED detached
          ELSE \* the dict is no longer in the store; it lives as long as a
               \* suspended coroutine refers to it
               /\ UNCHANGED sessions
               /\ detached' = IF session_id \in HeldBy(Calls \ {c})
                              THEN With(detached, session_id, session)
                              ELSE Without(detached, session_id)
       /\ calls' = [calls EXCEPT ![c] = DoneCall(session_id)]
       /\ replies' = Reply("process_message", calls[c].request,
                           MessageResponse(tool_result, session_id, <<log_entry>>, t3))
       /\ clock' = t3
       /\ UNCHANGED mcp_posts

\* a variant that writes the session back: sessions[session_id] = session
ToolReturns_StoresBack(c, reply, t1, t2, t3) ==
    /\ calls[c].pc = "awaiting"
    /\ t1 <= t2 /\ t2 <= t3
    /\ LET session_id == calls[c].session_id
           tool_name == calls[c].tool_name
           arguments == calls[c].arguments
           tool_result == call_mcp_tool(tool_name, reply)
           log_entry == LogEntry(uuid4(uuids), session_id, tool_name, arguments,
                                 tool_result, t1)
           session == AppendAssistantMessage(SessionOf(session_id), tool_result, t2)
       IN
       /\ tool_logs' = log_tool_execution(tool_logs, log_entry)
       /\ uuids' = uuids + 1
       /\ sessions' = With(sessions, session_id, session)
       /\ detached' = Without(detached, session_id)
       /\ calls' = [calls EXCEPT ![c] = DoneCall(session_id)]
       /\ replies' = Reply("process_message", calls[c].request,
                           MessageResponse(tool_result, session_id, <<log_entry>>, t3))
       /\ clock' = t3
       /\ UNCHANGED mcp_posts

ToolReturns(c, reply, t1, t2, t3) ==
    /\ calls[c].pc = "awaiting"
    /\ t1 <= t2 /\ t2 <= t3
    /\ LET session_id == calls[c].session_id
           tool_name == calls[c].tool_name
           arguments == calls[c].arguments
           tool_result == call_mcp_tool(tool_name, reply)
           log_entry == LogEntry(uuid4(uuids), session_id, tool_name, arguments,
                                 tool_result, t1)
           session == AppendAssistantMessage(SessionOf(session_id), tool_result, t2)
       IN
       /\ tool_logs' = log_tool_execution(tool_logs, log_entry)
       /\ uuids' = uuids + 1
       /\ IF session_id \in DOMAIN sessions
          THEN /\ sessions' = With(sessions, session_id, session)
               /\ UNCHANGED detached
          ELSE \* the dict is no longer in the store; it lives as long as a
               \* suspended coroutine refers to it
               /\ UNCHANGED sessions
               /\ detached' = IF session_id \in HeldBy(Calls \ {c})
                              THEN With(detached, session_id, session)
                              ELSE Without(detached, session_id)
       /\ calls' = [calls EXCEPT ![c] = DoneCall(session_id)]
       /\ replies' = Reply("process_message", calls[c].request,
                           MessageResponse(tool_result, session_id, <<log_entry>>, t3))
       /\ clock' = t3
       /\ UNCHANGED mcp_posts

(***************************************************************************)
(* The management endpoints.                                               *)
(***************************************************************************)
\* Python's seq[start:] for any integer start
SliceFrom(seq, start) ==
    LET n == Len(seq)
        first == IF start < 0
                 THEN (IF n + start < 0 THEN 0 ELSE n + start)
                 ELSE (IF start > n THEN n ELSE start)
    IN SubSeq(seq, first + 1, n)

\* GET /agent/tools/logs: {"total": len(tool_logs), "logs": tool_logs[-limit:]}
ToolLogsReply(logs, limit) ==
    [t |-> "tool_logs", total |-> Len(logs), logs |-> SliceFrom(logs, -limit)]

\* class SessionInfo: user_id is a str
SessionInfo(session_id, session) ==
    IF session.user_id = None THEN ValidationError
    ELSE [t |-> "SessionInfo",
          session_id |-> session_id,
          user_id |-> session.user_id,
          created_at |-> session.created_at,
          message_count |-> session.message_count,
          last_activity |-> session.last_activity]

\* GET /agent/session/{session_id}
SessionReply(store, session_id) ==
    IF session_id \notin DOMAIN store THEN HTTPException(404)
    ELSE SessionInfo(session_id, store[session_id])

\* GET /agent/sessions
SessionsReply(store) ==
    [t |-> "sessions",
     total |-> Cardinality(DOMAIN store),
     sessions |-> {[session_id |-> sid,
                    user_id |-> store[sid].user_id,
                    message_count |-> store[sid].message_count,
                    last_activity |-> store[sid].last_activity] : sid \in DOMAIN store}]

Limits == 0..MaxLimit

get_tool_logs(limit) ==
    /\ replies' = Reply("get_tool_logs", limit, ToolLogsReply(tool_logs, limit))
    /\ UNCHANGED <<sessions, detached, tool_logs, calls, mcp_posts, clock, uuids>>

\* a variant that opens a session for an identifier it does not find
get_session_OpensMissing(session_id) ==
    LET store == IF session_id \in DOMAIN sessions THEN sessions
                 ELSE With(sessions, session_id, NewSession(DefaultUserId, clock, clock))
    IN
    /\ sessions' = store
    /\ replies' = Reply("get_session", session_id, SessionReply(store, session_id))
    /\ UNCHANGED <<detached, tool_logs, calls, mcp_posts, clock, uuids>>

get_session(session_id) ==
    /\ replies' = Reply("get_session", session_id, SessionReply(sessions, session_id))
    /\ UNCHANGED <<sessions, detached, tool_logs, calls, mcp_posts, clock, uuids>>

list_sessions ==
    /\ replies' = Reply("list_sessions", None, SessionsReply(sessions))
    /\ UNCHANGED <<sessions, detached, tool_logs, calls, mcp_posts, clock, uuids>>

\* a variant that also drops the records of the session from the tool log
delete_session_PurgesLog(session_id) ==
    /\ IF session_id \in DOMAIN sessions
       THEN /\ sessions' = Without(sessions, session_id)
            /\ detached' = IF session_id \in HeldBy(Calls)
                           THEN With(detached, session_id, sessions[session_id])
                           ELSE detached
            /\ tool_logs' = SelectSeq(tool_logs, LAMBDA e : e.session_id # session_id)
            /\ replies' = Reply("delete_session", session_id,
                                [t |-> "deleted", session_id |-> session_id])
       ELSE /\ replies' = Reply("delete_session", session_id, HTTPException(404))
            /\ UNCHANGED <<sessions, detached, tool_logs>>
    /\ UNCHANGED <<calls, mcp_posts, clock, uuids>>

\* DELETE /agent/session/{session_id}
delete_session(session_id) ==
    /\ IF session_id \in DOMAIN sessions
       THEN /\ sessions' = Without(sessions, session_id)
            /\ detached' = IF session_id \in HeldBy(Calls)
                           THEN With(detached, session_id, sessions[session_id])
                           ELSE detached
            /\ replies' = Reply("delete_session", session_id,
                                [t |-> "deleted", session_id |-> session_id])
       ELSE /\ replies' = Reply("delete_session", session_id, HTTPException(404))
            /\ UNCHANGED <<sessions, detached>>
    /\ UNCHANGED <<tool_logs, calls, mcp_posts, clock, uuids>>

\* the requests of the clients: user_id is left at its default, or is null
\* in a request that opens a session
Requests ==
    {MessageRequest(m, sid, DefaultUserId) : m \in AgentMessages, sid \in SuppliedIds}
        \cup {MessageRequest(MsgThanks, None, None)}

\* the identifiers in the path of a management request (never empty)
ManagedIds == SuppliedIds \ {None, EmptyId}

(***************************************************************************)
(* The intent pipeline on its own: analyze_intent and the argument         *)
(* extraction applied to every text built from a few tokens.  The tokens   *)
(* give keywords of each rule in either case, a word that is no keyword,   *)
(* a blank, and digit runs that are long, short, free or glued to letters. *)
(***************************************************************************)
Tokens ==
    {<<"P", "r", "i", "c", "e">>, <<"t", "r", "a", "c", "k">>,
     <<"H", "e", "l", "l", "o">>, <<"o", "k">>, <<" ">>,
     <<"1", "2", "3", "4", "5">>, <<"9", "8", "7", "6", "5">>, <<"6">>}

\* the texts of at most n tokens written one after the other
RECURSIVE TextsOf(_)
TextsOf(n) ==
    IF n = 0 THEN {<<>>}
    ELSE LET shorter == TextsOf(n - 1) IN
         shorter \cup {text \o token : text \in shorter, token \in Tokens}

\* the locals of process_message that the pipeline works on, before a text
\* has arrived
NoPipeline ==
    [pc |-> "idle", message |-> <<>>, intent_analysis |-> NoResult, arguments |-> <<>>]

(***************************************************************************)
(* The delivery tools (src/mcp.py).  One tool coroutine runs at a time;    *)
(* the tools share nothing but the two credentials.                        *)
(***************************************************************************)
SENPEX_API_BASE == "https://api.sandbox.senpex.com/api/restfull/v4"

JFloat(n) == [t |-> "float", v |-> n]

EmptyDict == JObj(<<>>)

\* `if guard: body[key] = value`: the item added to the dict
FieldIf(guard, key, value) == IF guard THEN key :> value ELSE <<>>

\* a variant that tests the client identifier only
CredentialsConfigured_ClientOnly(client_id, secret_id) == client_id # ""

\* the negation of `not SENPEX_CLIENT_ID or not SENPEX_SECRET_ID`
CredentialsConfigured(client_id, secret_id) == client_id # "" /\ secret_id # ""

\* the text of the two quote tools when a credential is missing
CredentialsMissingLong ==
    PyStr(<<"Error", ": Senpex API ", "credentials", " not configured.",
            " Please set SENPEX_CLIENT_ID and SENPEX_SECRET_ID environment variables.">>)

\* the text of the other tools when a credential is missing
CredentialsMissing ==
    PyStr(<<"Error", ": Senpex API ", "credentials", " not configured.">>)

ScheduleRequired ==
    PyStr(<<"Error", ": schedule_date_local is required when taken_asap=0 (scheduled delivery)">>)

PickupRequired == PyStr(<<"Error", ": At least one pickup address is required">>)

\* a variant that sends the client identifier only
CredentialHeaders_NoSecret(client_id, secret_id) == "clientid" :> client_id

\* "clientid": SENPEX_CLIENT_ID, "secretid": SENPEX_SECRET_ID
CredentialHeaders(client_id, secret_id) ==
    "clientid" :> client_id @@ "secretid" :> secret_id

JsonHeader == "Content-Type" :> "application/json"

CountryHeader == "Country" :> "US"

NoBody == [t |-> "absent"]

\* client.post / client.put / client.get (url, headers=, json=, timeout=30.0)
HttpRequest(verb, url, headers, body) ==
    [verb |-> verb, url |-> url, headers |-> headers, body |-> body, timeout |-> 30]

(***************************************************************************)
(* The arguments the tools are invoked with.  Every parameter of a tool    *)
(* is a field; the parameters that are not varied hold their default or a  *)
(* fixed value.  Required arguments are never empty.                       *)
(***************************************************************************)
Args(tool) ==
    LET pickup_full ==
            JObj([route_to_text |-> JStr("1 Pine St"), rec_name |-> JStr("Ann"),
                  rec_phone |-> JStr("+14155551234"), route_desc |-> JStr("ring")])
        pickup_partial == JObj([route_to_text |-> JStr("3 Elm St")])
        instructions == {"", "ring twice"}
        order_ids == {"7", "8"}
    IN
    CASE tool = "get_dropoff_quote" ->
            {[user_email |-> "ann@example.com", user_name |-> n,
              pickup_addr |-> "1 Pine St", dropoff_addr |-> "2 Oak St",
              recipient_name |-> "Recipient", recipient_phone |-> "+1234567890",
              order_name |-> "Delivery Order", transport_id |-> 1, pack_size_id |-> 1,
              item_value |-> 100, taken_asap |-> 1, payment_type |-> 5,
              order_desc |-> "Package delivery",
              pickup_instructions |-> p, dropoff_instructions |-> q] :
                n \in {"Ann", "Bob"}, p \in instructions, q \in instructions}
      [] tool = "get_pickup_quote" ->
            {[user_email |-> "ann@example.com", order_name |-> "Returns",
              dropoff_addr |-> da, dropoff_recipient_name |-> "Bob",
              dropoff_recipient_phone |-> "+14155555678", pickup_addresses |-> pa,
              transport_id |-> 1, pack_size_id |-> 1, item_value |-> 100,
              taken_asap |-> asap, schedule_date_local |-> sd,
              order_desc |-> "Package pickup and delivery",
              dropoff_instructions |-> opt[1], show_one_price |-> 0,
              promo_code |-> opt[2]] :
                pa \in {<<>>, <<pickup_full>>, <<pickup_full, pickup_partial>>},
                da \in {"2 Oak St", "4 Ash St"},
                asap \in {0, 1}, sd \in {"", "2026-01-05 10:00"},
                opt \in {<<"", "">>, <<"ring twice", "SAVE5">>}}
      [] tool = "confirm_dropoff" ->
            {[api_token |-> "tok1", user_email |-> "ann@example.com", payment_type |-> 3,
              tip_amount |-> opt[1], sender_name |-> sn, sender_cell |-> "",
              sender_desc |-> "", order_desc |-> "", recipient_name |-> rn,
              recipient_phone |-> rp, snpx_user_email |-> 0, snpx_order_email |-> 1,
              snpx_order_not |-> 1, search_courier |-> opt[2]] :
                opt \in {<<0, 1>>, <<5, 0>>}, sn \in {"", "Store"},
                rn \in {"", "Bob"}, rp \in {"", "+14155555678"}}
      [] tool = "confirm_pickup" ->
            {[api_token |-> "tok2", user_email |-> "ann@example.com",
              tip_amount |-> opt[1], sender_name |-> opt[2], sender_cell |-> "",
              sender_desc |-> "", order_desc |-> "", pickup_updates |-> pu,
              snpx_user_email |-> 0, snpx_order_email |-> 1, snpx_order_not |-> 1,
              search_courier |-> 1] :
                opt \in {<<0, "">>, <<5, "Store">>},
                pu \in {PyNone, JArr(<<>>), JArr(<<EmptyDict>>),
                        JArr(<<JObj([rec_name |-> JStr("Ann")]),
                               JObj([rec_name |-> JStr("Bob"),
                                     rec_phone |-> JStr("+14155555678")])>>)}}
      [] tool = "get_order_list" -> {[start |-> s] : s \in {0, 10}}
      [] tool = "get_route_details" -> {[route_id |-> "501"]}
      [] tool = "get_order_by_token" -> {[api_token |-> "tok1"]}
      [] tool = "track_order_by_access_key" -> {[access_key |-> "key1"]}
      [] tool \in {"track_order_by_id", "get_driver_location", "set_delivery_ready",
                   "set_laboratory_ready", "set_dropoff_received"} ->
            {[order_id |-> o] : o \in order_ids}

(***************************************************************************)
(* Pieces of the requests the tools build.                                 *)
(***************************************************************************)
\* str() of the integers the model uses
IntText(n) ==
    CASE n = -1 -> "-1"
      [] n = 0 -> "0"
      [] n = 1 -> "1"
      [] n = 2 -> "2"
      [] n = 5 -> "5"
      [] n = 7 -> "7"
      [] n = 10 -> "10"
      [] n = 25 -> "25"
      [] n = 30 -> "30"
      [] n = 60 -> "60"
      [] n = 120 -> "120"

\* d.get(key, default) on a dict d
GetOr(d, key, default) == IF key \in DOMAIN d.v THEN d.v[key] ELSE default

\* "Build routes array from pickup_addresses"
PickupRoutes(pickup_addresses) ==
    [i \in 1..Len(pickup_addresses) |->
        JObj([route_to_text |-> GetOr(pickup_addresses[i], "route_to_text", JStr("")),
              rec_name |-> GetOr(pickup_addresses[i], "rec_name", JStr("")),
              rec_phone |-> GetOr(pickup_addresses[i], "rec_phone", JStr("")),
              route_desc |-> GetOr(pickup_addresses[i], "route_desc", JStr(""))])]

\* "Add optional fields if provided", the same in both confirm tools
SenderFields(a) ==
    FieldIf(a.sender_name # "", "sender_name", JStr(a.sender_name))
        @@ FieldIf(a.sender_cell # "", "sender_cell", JStr(a.sender_cell))
        @@ FieldIf(a.sender_desc # "", "sender_desc", JStr(a.sender_desc))
        @@ FieldIf(a.order_desc # "", "order_desc", JStr(a.order_desc))

\* "Add route updates if provided" of confirm_dropoff
RecipientUpdate(a) ==
    FieldIf(a.recipient_name # "" \/ a.recipient_phone # "", "routes",
            JArr(<<JObj(FieldIf(a.recipient_name # "", "rec_name", JStr(a.recipient_name))
                        @@ FieldIf(a.recipient_phone # "", "rec_phone",
                                   JStr(a.recipient_phone)))>>))

\* the route_update dict of one element of pickup_updates
RouteUpdate(update) ==
    JObj(FieldIf("rec_name" \in DOMAIN update.v, "rec_name", GetOr(update, "rec_name", PyNone))
         @@ FieldIf("rec_phone" \in DOMAIN update.v, "rec_phone",
                    GetOr(update, "rec_phone", PyNone)))

\* a list without its empty dicts, in order
RECURSIVE NonEmptyDicts(_)
NonEmptyDicts(items) ==
    IF Len(items) = 0 THEN <<>>
    ELSE (IF DOMAIN Head(items).v = {} THEN <<>> ELSE <<Head(items)>>)
             \o NonEmptyDicts(Tail(items))

\* "Add route updates if provided" of confirm_pickup
PickupUpdates(pickup_updates) ==
    IF pickup_updates.t = "list" /\ Len(pickup_updates.v) > 0
    THEN LET routes == NonEmptyDicts([i \in 1..Len(pickup_updates.v) |->
                                          RouteUpdate(pickup_updates.v[i])])
         IN FieldIf(Len(routes) > 0, "routes", JArr(routes))
    ELSE <<>>


(***************************************************************************)
(* The tool coroutine.  An invocation runs up to its return or up to the   *)
(* await of its HTTP request; the response resumes it.  outbound holds the *)
(* requests sent through the httpx client of the running invocation.       *)
(***************************************************************************)
NoReply == [kind |-> "none"]

Invocation(pc, tool, args, reply, result) ==
    [pc |-> pc, tool |-> tool, args |-> args, reply |-> reply, result |-> result]

NoInvocation == Invocation("idle", None, <<>>, NoReply, NoResult)

ToolInit ==
    /\ SENPEX_CLIENT_ID \in {"", "client"}
    /\ SENPEX_SECRET_ID \in {"", "secret"}
    /\ invocation = NoInvocation
    /\ outbound = <<>>
    /\ previous = None

\* the invocation returns text without a request
Returns(tool, args, text) ==
    /\ invocation.pc \in {"idle", "returned"}
    /\ invocation' = Invocation("returned", tool, args, NoReply, text)
    /\ outbound' = <<>>
    /\ previous' = invocation.tool
    /\ UNCHANGED <<SENPEX_CLIENT_ID, SENPEX_SECRET_ID>>

\* the invocation sends request and awaits the response
Sends(tool, args, request) ==
    /\ invocation.pc \in {"idle", "returned"}
    /\ invocation' = Invocation("awaiting", tool, args, NoReply, NoResult)
    /\ outbound' = <<request>>
    /\ previous' = invocation.tool
    /\ UNCHANGED <<SENPEX_CLIENT_ID, SENPEX_SECRET_ID>>

get_dropoff_quote(a) ==
    IF ~CredentialsConfigured(SENPEX_CLIENT_ID, SENPEX_SECRET_ID)
    THEN Returns("get_dropoff_quote", a, CredentialsMissingLong)
    ELSE Sends("get_dropoff_quote", a,
           HttpRequest("POST", <<SENPEX_API_BASE, "/orders/dropoff/quote">>,
               CredentialHeaders(SENPEX_CLIENT_ID, SENPEX_SECRET_ID) @@ CountryHeader @@ JsonHeader,
               JObj([email |-> JStr(a.user_email),
                     order_name |-> JStr(a.order_name),
                     pack_from_text |-> JStr(a.pickup_addr),
                     transport_id |-> JNum(a.transport_id),
                     item_value |-> JFloat(a.item_value),
                     pack_size_id |-> JNum(a.pack_size_id),
                     taken_asap |-> JNum(a.taken_asap),
                     payment_type |-> JNum(a.payment_type),
                     order_desc |-> JStr(a.order_desc),
                     route_desc |-> JStr(a.pickup_instructions),
                     routes |-> JArr(<<JObj([route_to_text |-> JStr(a.dropoff_addr),
                                             route_desc |-> JStr(a.dropoff_instructions),
                                             rec_name |-> JStr(a.recipient_name),
                                             rec_phone |-> JStr(a.recipient_phone)])>>)])))

get_pickup_quote(a) ==
    IF ~CredentialsConfigured(SENPEX_CLIENT_ID, SENPEX_SECRET_ID)
    THEN Returns("get_pickup_quote", a, CredentialsMissingLong)
    ELSE IF a.taken_asap = 0 /\ a.schedule_date_local = ""
    THEN Returns("get_pickup_quote", a, ScheduleRequired)
    ELSE IF Len(a.pickup_addresses) = 0
    THEN Returns("get_pickup_quote", a, PickupRequired)
    ELSE Sends("get_pickup_quote", a,
           HttpRequest("POST", <<SENPEX_API_BASE, "/orders/pickup/quote">>,
               CredentialHeaders(SENPEX_CLIENT_ID, SENPEX_SECRET_ID) @@ CountryHeader @@ JsonHeader,
               JObj([email |-> JStr(a.user_email),
                     order_name |-> JStr(a.order_name),
                     transport_id |-> JNum(a.transport_id),
                     item_value |-> JFloat(a.item_value),
                     pack_size_id |-> JNum(a.pack_size_id),
                     taken_asap |-> JNum(a.taken_asap),
                     order_desc |-> JStr(a.order_desc),
                     route_desc |-> JStr(a.dropoff_instructions),
                     rec_name |-> JStr(a.dropoff_recipient_name),
                     rec_phone |-> JStr(a.dropoff_recipient_phone),
                     routes |-> JArr(PickupRoutes(a.pickup_addresses)),
                     show_one_price |-> JNum(a.show_one_price)]
                    @@ FieldIf(a.schedule_date_local # "", "schedule_date_local",
                               JStr(a.schedule_date_local))
                    @@ FieldIf(a.promo_code # "", "promo_code", JStr(a.promo_code)))))

confirm_dropoff(a) ==
    IF ~CredentialsConfigured(SENPEX_CLIENT_ID, SENPEX_SECRET_ID)
    THEN Returns("confirm_dropoff", a, CredentialsMissing)
    ELSE Sends("confirm_dropoff", a,
           HttpRequest("PUT", <<SENPEX_API_BASE, "/orders/dropoff">>,
               CredentialHeaders(SENPEX_CLIENT_ID, SENPEX_SECRET_ID) @@ JsonHeader,
               JObj([api_token |-> JStr(a.api_token),
                     email |-> JStr(a.user_email),
                     payment_type |-> JNum(a.payment_type),
                     tip_amount |-> JFloat(a.tip_amount),
                     snpx_user_email |-> JNum(a.snpx_user_email),
                     snpx_order_email |-> JNum(a.snpx_order_email),
                     snpx_order_not |-> JNum(a.snpx_order_not),
                     search_courier |-> JNum(a.search_courier)]
                    @@ SenderFields(a) @@ RecipientUpdate(a))))

confirm_pickup(a) ==
    IF ~CredentialsConfigured(SENPEX_CLIENT_ID, SENPEX_SECRET_ID)
    THEN Returns("confirm_pickup", a, CredentialsMissing)
    ELSE Sends("confirm_pickup", a,
           HttpRequest("PUT", <<SENPEX_API_BASE, "/orders/pickup">>,
               CredentialHeaders(SENPEX_CLIENT_ID, SENPEX_SECRET_ID) @@ JsonHeader,
               JObj([api_token |-> JStr(a.api_token),
                     email |-> JStr(a.user_email),
                     tip_amount |-> JFloat(a.tip_amount),
                     snpx_user_email |-> JNum(a.snpx_user_email),
                     snpx_order_email |-> JNum(a.snpx_order_email),
                     snpx_order_not |-> JNum(a.snpx_order_not),
                     search_courier |-> JNum(a.search_courier)]
                    @@ SenderFields(a) @@ PickupUpdates(a.pickup_updates))))

get_order_list(a) ==
    IF ~CredentialsConfigured(SENPEX_CLIENT_ID, SENPEX_SECRET_ID)
    THEN Returns("get_order_list", a, CredentialsMissing)
    ELSE Sends("get_order_list", a,
           HttpRequest("GET",
               <<SENPEX_API_BASE, "/order-list">>
                   \o (IF a.start > 0 THEN <<"?start=", IntText(a.start)>> ELSE <<>>),
               CredentialHeaders(SENPEX_CLIENT_ID, SENPEX_SECRET_ID), NoBody))

get_route_details(a) ==
    IF ~CredentialsConfigured(SENPEX_CLIENT_ID, SENPEX_SECRET_ID)
    THEN Returns("get_route_details", a, CredentialsMissing)
    ELSE Sends("get_route_details", a,
           HttpRequest("GET", <<SENPEX_API_BASE, "/orders/routes/", a.route_id>>,
               CredentialHeaders(SENPEX_CLIENT_ID, SENPEX_SECRET_ID), NoBody))

get_order_by_token(a) ==
    IF ~CredentialsConfigured(SENPEX_CLIENT_ID, SENPEX_SECRET_ID)
    THEN Returns("get_order_by_token", a, CredentialsMissing)
    ELSE Sends("get_order_by_token", a,
           HttpRequest("GET", <<SENPEX_API_BASE, "/orders/tokens/", a.api_token>>,
               CredentialHeaders(SENPEX_CLIENT_ID, SENPEX_SECRET_ID), NoBody))

track_order_by_id(a) ==
    IF ~CredentialsConfigured(SENPEX_CLIENT_ID, SENPEX_SECRET_ID)
    THEN Returns("track_order_by_id", a, CredentialsMissing)
    ELSE Sends("track_order_by_id", a,
           HttpRequest("GET", <<SENPEX_API_BASE, "/points/dropoff/track/", a.order_id>>,
               CredentialHeaders(SENPEX_CLIENT_ID, SENPEX_SECRET_ID), NoBody))

track_order_by_access_key(a) ==
    IF ~CredentialsConfigured(SENPEX_CLIENT_ID, SENPEX_SECRET_ID)
    THEN Returns("track_order_by_access_key", a, CredentialsMissing)
    ELSE Sends("track_order_by_access_key", a,
           HttpRequest("GET",
               <<SENPEX_API_BASE, "/points/dropoff/track/access_key/", a.access_key>>,
               CredentialHeaders(SENPEX_CLIENT_ID, SENPEX_SECRET_ID), NoBody))

get_driver_location(a) ==
    IF ~CredentialsConfigured(SENPEX_CLIENT_ID, SENPEX_SECRET_ID)
    THEN Returns("get_driver_location", a, CredentialsMissing)
    ELSE Sends("get_driver_location", a,
           HttpRequest("GET", <<SENPEX_API_BASE, "/orders/", a.order_id, "/driver-location/">>,
               CredentialHeaders(SENPEX_CLIENT_ID, SENPEX_SECRET_ID), NoBody))

set_delivery_ready(a) ==
    IF ~CredentialsConfigured(SENPEX_CLIENT_ID, SENPEX_SECRET_ID)
    THEN Returns("set_delivery_ready", a, CredentialsMissing)
    ELSE Sends("set_delivery_ready", a,
           HttpRequest("PUT", <<SENPEX_API_BASE, "/points/dropoff-delivery-ready">>,
               CredentialHeaders(SENPEX_CLIENT_ID, SENPEX_SECRET_ID) @@ JsonHeader,
               JObj([id |-> JStr(a.order_id)])))

\* a variant with a local lifecycle check: the transition is sent only
\* right after set_delivery_ready
set_laboratory_ready_ChecksLifecycle(a) ==
    IF ~CredentialsConfigured(SENPEX_CLIENT_ID, SENPEX_SECRET_ID)
    THEN Returns("set_laboratory_ready", a, CredentialsMissing)
    ELSE IF invocation.tool # "set_delivery_ready"
    THEN Returns("set_laboratory_ready", a, PyStr(<<"Error", ": order is not delivery-ready">>))
    ELSE Sends("set_laboratory_ready", a,
           HttpRequest("PUT", <<SENPEX_API_BASE, "/points/dropoff-laboratory-ready">>,
               CredentialHeaders(SENPEX_CLIENT_ID, SENPEX_SECRET_ID) @@ JsonHeader,
               JObj([id |-> JStr(a.order_id)])))

set_laboratory_ready(a) ==
    IF ~CredentialsConfigured(SENPEX_CLIENT_ID, SENPEX_SECRET_ID)
    THEN Returns("set_laboratory_ready", a, CredentialsMissing)
    ELSE Sends("set_laboratory_ready", a,
           HttpRequest("PUT", <<SENPEX_API_BASE, "/points/dropoff-laboratory-ready">>,
               CredentialHeaders(SENPEX_CLIENT_ID, SENPEX_SECRET_ID) @@ JsonHeader,
               JObj([id |-> JStr(a.order_id)])))

set_dropoff_received(a) ==
    IF ~CredentialsConfigured(SENPEX_CLIENT_ID, SENPEX_SECRET_ID)
    THEN Returns("set_dropoff_received", a, CredentialsMissing)
    ELSE Sends("set_dropoff_received", a,
           HttpRequest("PUT", <<SENPEX_API_BASE, "/points/dropoff-received">>,
               CredentialHeaders(SENPEX_CLIENT_ID, SENPEX_SECRET_ID) @@ JsonHeader,
               JObj([id |-> JStr(a.order_id)])))

(***************************************************************************)
(* The responses of the upstream API.                                      *)
(***************************************************************************)
\* bodies of each shape the tools tell apart, each with its f"{data}"
UpBodies ==
    {[data |-> JObj([code |-> JStr("0"),
                     data |-> JObj([price |-> JNum(25), token |-> JStr("tok1")])]),
      repr |-> "{'code': '0', 'data': {'price': 25, 'token': 'tok1'}}"],
     [data |-> JObj([code |-> JStr("1"), data |-> JObj([price |-> JNum(25)])]),
      repr |-> "{'code': '1', 'data': {'price': 25}}"],
     [data |-> JObj([code |-> JStr("1"), msg |-> JStr("bad token")]),
      repr |-> "{'code': '1', 'msg': 'bad token'}"],
     [data |-> JObj([data |-> JArr(<<>>)]), repr |-> "{'data': []}"],
     [data |-> JObj([code |-> JStr("0"),
                     data |-> JArr(<<JObj([id |-> JNum(7), rec_name |-> JStr("Bob")])>>)]),
      repr |-> "{'code': '0', 'data': [{'id': 7, 'rec_name': 'Bob'}]}"],
     [data |-> JObj([code |-> JStr("0"), data |-> JArr(<<>>)]),
      repr |-> "{'code': '0', 'data': []}"],
     [data |-> JObj([code |-> JStr("0"), inserted_id |-> JNum(-1)]),
      repr |-> "{'code': '0', 'inserted_id': -1}"],
     [data |-> JObj([code |-> JStr("0"), inserted_id |-> JNum(7),
                     distance_time |-> JNum(120), order_price |-> JNum(30),
                     api_token |-> JStr("tok2")]),
      repr |-> "{'code': '0', 'inserted_id': 7, 'distance_time': 120, 'order_price': 30, 'api_token': 'tok2'}"],
     [data |-> JObj([code |-> JStr("0"), distance_time |-> JStr("soon"),
                     distance_time_seconds |-> JStr("soon")]),
      repr |-> "{'code': '0', 'distance_time': 'soon', 'distance_time_seconds': 'soon'}"],
     [data |-> JArr(<<>>), repr |-> "[]"],
     [data |-> PyNone, repr |-> "None"]}

\* f"{data}" of a response body
DataText(data) == (CHOOSE body \in UpBodies : body.data = data).repr

\* what the awaited request ends in: an exception of httpx, a response
\* with an error status, a body that is no JSON, or a JSON body
UpstreamReply(kind, status_code, text, data) ==
    [kind |-> kind, status_code |-> status_code, text |-> text, data |-> data]

UpstreamReplies ==
    {UpstreamReply(k, "-", "", PyNone) : k \in {"timeout", "connect_error"}}
        \cup {UpstreamReply("status", "500", "Internal Server Error", PyNone),
              UpstreamReply("not_json", "200", "<html>", PyNone)}
        \cup {UpstreamReply("json", "200", "", body.data) : body \in UpBodies}

(***************************************************************************)
(* Python expressions inside the try blocks.  An expression evaluates to   *)
(* a text or raises; the values the responses hold are dicts, lists,       *)
(* integers, None and strings that are no numerals.                        *)
(***************************************************************************)
Raised(e) == [t |-> "Exception", e |-> e]

StatusError(status_code, text) ==
    [t |-> "HTTPStatusError", status_code |-> status_code, text |-> text]

\* f"{value}" of a scalar
ToText(value) ==
    CASE value.t = "str" -> value.v[1]
      [] value.t \in {"int", "float"} -> IntText(value.v)
      [] value.t = "NoneType" -> "None"

\* bool(value)
IsTruthy(value) ==
    CASE value.t = "str" -> value.v # <<"">>
      [] value.t \in {"int", "float"} -> value.v # 0
      [] value.t = "list" -> Len(value.v) > 0
      [] value.t = "dict" -> DOMAIN value.v # {}
      [] value.t = "NoneType" -> FALSE

\* `key in c` for a dict or a list c
In(key, c) ==
    CASE c.t = "dict" -> key \in DOMAIN c.v
      [] c.t = "list" -> \E i \in 1..Len(c.v) : c.v[i] = JStr(key)

\* data.get("code") == "0"
CodeIsZero(data) == GetOr(data, "code", PyNone) = JStr("0")

\* consecutive `result += ...` statements: the text, or the first exception
RECURSIVE Build(_)
Build(parts) ==
    IF Len(parts) = 0 THEN PyStr(<<>>)
    ELSE IF Head(parts).t = "Exception" THEN Head(parts)
    ELSE LET rest == Build(Tail(parts)) IN
         IF rest.t = "Exception" THEN rest ELSE PyStr(Head(parts).v \o rest.v)

\* if "key" in d: result += f"{prefix}{d['key']}{suffix}"
KeyLine(d, key, prefix, suffix) ==
    IF key \in DOMAIN d.v THEN PyStr(<<prefix, ToText(d.v[key]), suffix>>)
    ELSE PyStr(<<>>)

\* result += f"{prefix}{d.get('key')}{suffix}"
GetLine(d, prefix, key, suffix) ==
    PyStr(<<prefix, ToText(GetOr(d, key, PyNone)), suffix>>)

\* if d.get('key'): result += f"{prefix}{d.get('key')}{suffix}"
TruthyLine(d, prefix, key, suffix) ==
    IF IsTruthy(GetOr(d, key, PyNone)) THEN GetLine(d, prefix, key, suffix)
    ELSE PyStr(<<>>)

\* int(float(value) / 60)
Minutes(value) ==
    IF value.t \in {"int", "float"} THEN PyStr(<<IntText(value.v \div 60)>>)
    ELSE IF value.t = "str" THEN Raised("ValueError")
    ELSE Raised("TypeError")

(***************************************************************************)
(* The loops of the try blocks.                                            *)
(***************************************************************************)
\* one pass of the loop over data["routes_json"] of get_pickup_quote
PickupRouteLines(i, route) ==
    Build(<<PyStr(<<"  ", IntText(i), ". ",
                    ToText(GetOr(route, "route_to_text", PyNone)), "\n">>),
            PyStr(<<"     Recipient: ", ToText(GetOr(route, "route_rec_name", PyNone)),
                    " (", ToText(GetOr(route, "route_rec_phone", PyNone)), ")\n">>),
            TruthyLine(route, "     Distance: ", "route_distance", " miles\n")>>)

\* one pass of the loop of get_order_list
OrderLines(order) ==
    Build(<<GetLine(order, "Order ID: ", "id", "\n"),
            GetLine(order, "  Name: ", "order_name", "\n"),
            PyStr(<<"  Status: ", ToText(GetOr(order, "order_status_text", PyNone)),
                    " (ID: ", ToText(GetOr(order, "pack_status", PyNone)), ")\n">>),
            GetLine(order, "  From: ", "pack_from_text", "\n"),
            GetLine(order, "  To: ", "last_pack_to_text", "\n"),
            PyStr(<<"  Recipient: ", ToText(GetOr(order, "last_receiver_name", PyNone)),
                    " (", ToText(GetOr(order, "last_receiver_phone_number", PyNone)), ")\n">>),
            GetLine(order, "  Price: $", "pack_price", "\n"),
            GetLine(order, "  Distance: ", "distance_miles", " miles\n"),
            IF IsTruthy(GetOr(order, "courier_name", PyNone))
            THEN PyStr(<<"  Courier: ", ToText(GetOr(order, "courier_name", PyNone)), " ",
                         ToText(GetOr(order, "courier_surname", PyNone)),
                         " (", ToText(GetOr(order, "courier_cell", PyNone)), ")\n">>)
            ELSE PyStr(<<>>),
            PyStr(<<"\n">>)>>)

\* one pass of the loop of get_route_details
RouteLines(route) ==
    Build(<<GetLine(route, "Address: ", "route_to_text", "\n"),
            PyStr(<<"Location: (", ToText(GetOr(route, "route_to_lat", PyNone)), ", ",
                    ToText(GetOr(route, "route_to_lng", PyNone)), ")\n">>),
            GetLine(route, "Recipient: ", "rec_name", "\n"),
            GetLine(route, "Phone: ", "rec_phone", "\n"),
            GetLine(route, "Status: ", "route_status", "\n"),
            GetLine(route, "Distance: ", "route_distance", " miles\n"),
            GetLine(route, "Travel Time: ", "route_distance_time", " seconds\n"),
            TruthyLine(route, "Delivery Date: ", "route_delivery_date", "\n"),
            PyStr(<<"\n">>)>>)

\* one pass of the loop over order.get('routes_json', [])
TokenRouteLines(i, route) ==
    PyStr(<<"  ", IntText(i), ". ", ToText(GetOr(route, "route_to_text", PyNone)), "\n",
            "     Recipient: ", ToText(GetOr(route, "rec_name", PyNone)),
            " (", ToText(GetOr(route, "rec_phone", PyNone)), ")\n">>)

\* one pass of the loop of the two tracking tools
TrackingLines(item) ==
    Build(<<GetLine(item, "Delivery ID: ", "id", "\n"),
            GetLine(item, "Address: ", "rec_address", "\n"),
            GetLine(item, "Recipient: ", "rec_name", "\n"),
            GetLine(item, "Phone: ", "rec_phone", "\n"),
            GetLine(item, "Pack Status: ", "pack_status", "\n"),
            GetLine(item, "Route Status: ", "route_status", "\n"),
            IF IsTruthy(GetOr(item, "courier_name", PyNone))
            THEN PyStr(<<"\nCourier Information:\n",
                         "  Name: ", ToText(GetOr(item, "courier_name", PyNone)), " ",
                         ToText(GetOr(item, "courier_surname", PyNone)), "\n",
                         "  Phone: ", ToText(GetOr(item, "courier_cell", PyNone)), "\n">>)
            ELSE PyStr(<<>>),
            IF IsTruthy(GetOr(item, "last_lat", PyNone))
                 /\ IsTruthy(GetOr(item, "last_lng", PyNone))
            THEN PyStr(<<"\nLast Known Location:\n",
                         "  Coordinates: (", ToText(GetOr(item, "last_lat", PyNone)), ", ",
                         ToText(GetOr(item, "last_lng", PyNone)), ")\n",
                         "  Updated: ", ToText(GetOr(item, "last_location_date", PyNone)), "\n">>)
            ELSE PyStr(<<>>),
            TruthyLine(item, "\nTracking Code: ", "tracking_code", "\n"),
            PyStr(<<"\n">>)>>)

\* the body of each for loop, by the name of the loop
LoopBody(loop, i, item) ==
    CASE loop = "pickup_route" -> PickupRouteLines(i, item)
      [] loop = "order" -> OrderLines(item)
      [] loop = "route" -> RouteLines(item)
      [] loop = "token_route" -> TokenRouteLines(i, item)
      [] loop = "tracking" -> TrackingLines(item)

\* a for loop over items (or over enumerate(items, 1)) whose body starts
\* with item.get(...): the texts of the passes in order; iterating a dict
\* yields its keys, which are strings
ForEach(items, loop) ==
    IF items.t \in {"dict", "str"}
    THEN (IF IsTruthy(items) THEN Raised("AttributeError") ELSE PyStr(<<>>))
    ELSE IF items.t # "list" THEN Raised("TypeError")
    ELSE IF \E i \in 1..Len(items.v) : items.v[i].t # "dict" THEN Raised("AttributeError")
    ELSE Build([i \in 1..Len(items.v) |-> LoopBody(loop, i, items.v[i])])

(***************************************************************************)
(* The body of each try block after response.json(): the text returned,    *)
(* or the exception raised, for the arguments a and the body data.         *)
(***************************************************************************)
get_dropoff_quote_Format(a, data) ==
    IF data.t \notin {"dict", "list"} THEN Raised("TypeError")
    ELSE IF ~In("data", data) THEN PyStr(<<"Quote response: ", DataText(data)>>)
    ELSE IF data.t = "list" THEN Raised("TypeError")
    ELSE LET quote_data == data.v.data IN
         IF quote_data.t \notin {"dict", "list"} THEN Raised("TypeError")
         ELSE IF quote_data.t = "list"
                 /\ \E key \in {"price", "distance", "duration", "token"} : In(key, quote_data)
         THEN Raised("TypeError")
         ELSE LET fields == IF quote_data.t = "dict" THEN quote_data ELSE EmptyDict IN
              Build(<<PyStr(<<"Senpex Delivery Quote:\nOrder: ", a.order_name,
                              "\nPickup: ", a.pickup_addr,
                              "\nDropoff: ", a.dropoff_addr, "\n\n">>),
                      KeyLine(fields, "price", "Price: $", "\n"),
                      KeyLine(fields, "distance", "Distance: ", " miles\n"),
                      KeyLine(fields, "duration", "Estimated Duration: ", " mins\n"),
                      KeyLine(fields, "token", "Quote Token: ", "\n")>>)

\* the discount lines of get_pickup_quote
DiscountLines(data) ==
    IF "original_order_price" \notin DOMAIN data.v THEN PyStr(<<>>)
    ELSE LET order_discount == GetOr(data, "order_discount", JNum(0)) IN
         IF order_discount.t \notin {"int", "float"} THEN Raised("TypeError")
         ELSE IF order_discount.v > 0
         THEN PyStr(<<"Original Price: $", ToText(data.v["original_order_price"]), "\n",
                      "Discount: $", ToText(order_discount), "\n">>)
         ELSE PyStr(<<>>)

\* a line that shows seconds and int(float(seconds) / 60)
SecondsLine(data, key, prefix) ==
    IF key \notin DOMAIN data.v THEN PyStr(<<>>)
    ELSE Build(<<PyStr(<<prefix, ToText(data.v[key]), " seconds (">>),
                 Minutes(data.v[key]),
                 PyStr(<<" minutes)\n">>)>>)

get_pickup_quote_Format(a, data) ==
    IF data.t # "dict" THEN Raised("AttributeError")
    ELSE IF ~CodeIsZero(data) THEN PyStr(<<"Quote response: ", DataText(data)>>)
    ELSE Build(<<PyStr(<<"Senpex Pickup Quote:\nOrder: ", a.order_name,
                         "\nDropoff: ", a.dropoff_addr,
                         "\nPickup Locations: ", IntText(Len(a.pickup_addresses)), "\n\n">>),
                 KeyLine(data, "order_price", "Price: $", "\n"),
                 DiscountLines(data),
                 KeyLine(data, "distance_miles", "Distance: ", " miles\n"),
                 SecondsLine(data, "distance_time_seconds", "Estimated Duration: "),
                 KeyLine(data, "tariff_duration_mins", "Tariff Duration: ", " minutes\n"),
                 KeyLine(data, "api_token", "\nAPI Token: ", "\n"),
                 IF "api_token" \in DOMAIN data.v
                 THEN PyStr(<<"Token Expires In: ",
                              ToText(GetOr(data, "expire_mins", JNum(60))), " minutes\n">>)
                 ELSE PyStr(<<>>),
                 IF "promo_code_info" \in DOMAIN data.v
                 THEN TruthyLine(data, "Promo Code Applied: ", "promo_code_info", "\n")
                 ELSE PyStr(<<>>),
                 IF "routes_json" \in DOMAIN data.v
                 THEN Build(<<PyStr(<<"\nPickup Routes:\n">>),
                              ForEach(data.v["routes_json"], "pickup_route")>>)
                 ELSE PyStr(<<>>)>>)

\* the summary the two confirm tools share but for its wording
ConfirmSummary(a, data, title, distance_label, created) ==
    Build(<<PyStr(<<title>>),
            KeyLine(data, "inserted_id", "Order ID: ", "\n"),
            KeyLine(data, "distance", distance_label, " miles\n"),
            SecondsLine(data, "distance_time", "Estimated Time: "),
            IF a.tip_amount > 0
            THEN PyStr(<<"Tip Added: $", IntText(a.tip_amount), ".0", "\n">>)
            ELSE PyStr(<<>>),
            PyStr(<<created>>),
            IF a.search_courier = 1
            THEN PyStr(<<"the system is now searching for a courier.">>)
            ELSE PyStr(<<"is waiting for manual courier assignment.">>)>>)

confirm_dropoff_Format(a, data) ==
    IF data.t # "dict" THEN Raised("AttributeError")
    ELSE IF ~CodeIsZero(data) THEN PyStr(<<"Order creation response: ", DataText(data)>>)
    ELSE ConfirmSummary(a, data, "Order Confirmed Successfully!\n\n", "Distance: ",
                        "\nYour order has been created and ")

confirm_pickup_Format(a, data) ==
    IF data.t # "dict" THEN Raised("AttributeError")
    ELSE IF ~CodeIsZero(data) THEN PyStr(<<"Order creation response: ", DataText(data)>>)
    ELSE ConfirmSummary(a, data, "Pickup Order Confirmed Successfully!\n\n",
                        "Total Distance: ", "\nYour pickup order has been created and ")

\* the branch every listing tool takes: raw response, nothing found, or
\* a title and the lines of each item
Listing(data, nothing_found, title, loop) ==
    IF data.t # "dict" THEN Raised("AttributeError")
    ELSE IF ~(CodeIsZero(data) /\ "data" \in DOMAIN data.v)
    THEN PyStr(<<"Response: ", DataText(data)>>)
    ELSE IF ~IsTruthy(data.v.data) THEN PyStr(<<nothing_found>>)
    ELSE Build(<<PyStr(title), ForEach(data.v.data, loop)>>)

get_order_list_Format(a, data) ==
    Listing(data, "No orders found.",
            <<"Orders List (starting from row ", IntText(a.start), "):\n\n">>, "order")

get_route_details_Format(a, data) ==
    Listing(data, "No route details found.",
            <<"Route Details (ID: ", a.route_id, "):\n\n">>, "route")

\* the lines of get_order_by_token for the dict order
TokenOrderLines(a, order) ==
    Build(<<PyStr(<<"Order Details (Token: ", a.api_token, "):\n\n">>),
            GetLine(order, "Order ID: ", "pack_id", "\n"),
            GetLine(order, "Order Name: ", "order_name", "\n"),
            GetLine(order, "Price: $", "order_price", "\n"),
            GetLine(order, "Original Price: $", "original_order_price", "\n"),
            GetLine(order, "Discount: $", "order_discount", "\n"),
            PyStr(<<"Tariff: ", ToText(GetOr(order, "tariff_name", PyNone)), " - ",
                    ToText(GetOr(order, "tariff_desc", PyNone)), "\n">>),
            GetLine(order, "From: ", "pack_from_text", "\n"),
            GetLine(order, "Distance: ", "distance_miles", " miles\n"),
            GetLine(order, "Duration: ", "distance_time_seconds", " seconds\n"),
            GetLine(order, "Route Count: ", "route_count", "\n"),
            GetLine(order, "Package Size: ", "pack_size_id", "\n"),
            GetLine(order, "Transport: ", "transport_id", "\n"),
            GetLine(order, "Item Value: $", "item_value", "\n"),
            GetLine(order, "Schedule Date: ", "schedule_date", "\n"),
            GetLine(order, "Expires: ", "expires_date", "\n"),
            IF IsTruthy(GetOr(order, "routes_json", PyNone))
            THEN Build(<<PyStr(<<"\nRoutes:\n">>),
                         ForEach(order.v["routes_json"], "token_route")>>)
            ELSE PyStr(<<>>)>>)

get_order_by_token_Format(a, data) ==
    IF data.t # "dict" THEN Raised("AttributeError")
    ELSE IF ~(CodeIsZero(data) /\ "data" \in DOMAIN data.v)
    THEN PyStr(<<"Response: ", DataText(data)>>)
    ELSE LET orders == data.v.data IN
         IF ~IsTruthy(orders) THEN PyStr(<<"No order found with this token.">>)
         ELSE IF orders.t = "dict" THEN Raised("KeyError")
         ELSE IF orders.t # "list" THEN Raised("TypeError")
         ELSE IF orders.v[1].t # "dict" THEN Raised("AttributeError")
         ELSE TokenOrderLines(a, orders.v[1])

track_order_by_id_Format(a, data) ==
    Listing(data, "No tracking information found.",
            <<"Order Tracking (ID: ", a.order_id, "):\n\n">>, "tracking")

track_order_by_access_key_Format(a, data) ==
    Listing(data, "No tracking information found.",
            <<"Order Tracking (Access Key: ", a.access_key, "):\n\n">>, "tracking")

\* 'Enabled' if driver_data.get(key) == 1 else 'Disabled'
Enabled(driver_data, key) ==
    IF GetOr(driver_data, key, PyNone) = JNum(1) THEN "Enabled" ELSE "Disabled"

\* the location block of get_driver_location
LocationLines(driver_data) ==
    IF IsTruthy(GetOr(driver_data, "last_lat", PyNone))
         /\ IsTruthy(GetOr(driver_data, "last_lng", PyNone))
    THEN Build(<<PyStr(<<"Current Location:\n",
                         "  GPS Coordinates: (", ToText(driver_data.v["last_lat"]), ", ",
                         ToText(driver_data.v["last_lng"]), ")\n">>),
                 TruthyLine(driver_data, "  Timezone: ", "last_timezone", "\n"),
                 TruthyLine(driver_data, "  Location Updated: ", "last_location_date", " (UTC)\n"),
                 TruthyLine(driver_data, "  Last Seen: ", "last_seen_date", " (UTC)\n")>>)
    ELSE PyStr(<<"Location: Not available yet\n">>)

\* the lines of get_driver_location for the dict driver_data
DriverLines(a, driver_data) ==
    Build(<<PyStr(<<"Driver Details for Order ", a.order_id, ":\n\n">>),
            KeyLine(driver_data, "pack_status", "Package Status: ", "\n"),
            KeyLine(driver_data, "order_status", "Order Status: ", "\n"),
            PyStr(<<"\n">>),
            IF IsTruthy(GetOr(driver_data, "courier_name", PyNone))
                 \/ IsTruthy(GetOr(driver_data, "courier_surname", PyNone))
            THEN PyStr(<<"Driver: ", ToText(GetOr(driver_data, "courier_name", JStr(""))), " ",
                         ToText(GetOr(driver_data, "courier_surname", JStr(""))), "\n">>)
            ELSE PyStr(<<>>),
            TruthyLine(driver_data, "Phone: ", "courier_phone_number", "\n"),
            PyStr(<<"\n">>),
            LocationLines(driver_data),
            PyStr(<<"\n", "Notification Settings:\n",
                    "  Email: ", Enabled(driver_data, "snpx_email"), "\n",
                    "  Push Notifications: ", Enabled(driver_data, "snpx_nots"), "\n",
                    "  SMS: ", Enabled(driver_data, "snpx_sms"), "\n",
                    "  Instant Notifications: ", Enabled(driver_data, "snpx_instant_not"), "\n">>),
            TruthyLine(driver_data, "  Instant Notification URL: ", "instant_not_url", "\n")>>)

get_driver_location_Format(a, data) ==
    IF data.t # "dict" THEN Raised("AttributeError")
    ELSE IF ~CodeIsZero(data) THEN PyStr(<<"Response: ", DataText(data)>>)
    ELSE LET driver_data == GetOr(data, "data", PyNone) IN
         IF ~IsTruthy(driver_data)
         THEN PyStr(<<"No driver assigned to order ", a.order_id, " yet.">>)
         ELSE IF driver_data.t \notin {"dict", "list", "str"} THEN Raised("TypeError")
         ELSE IF driver_data.t # "dict" THEN Raised("AttributeError")
         ELSE DriverLines(a, driver_data)

\* the branch the three status tools take; done is the wording of the tool
StatusChange(a, data, done) ==
    IF data.t # "dict" THEN Raised("AttributeError")
    ELSE IF ~CodeIsZero(data) THEN PyStr(<<"Error", " response: ", DataText(data)>>)
    ELSE IF GetOr(data, "inserted_id", PyNone) = JNum(-1)
    THEN PyStr(<<"Success: Order ", a.order_id, done>>)
    ELSE PyStr(<<"Order status updated. Response: ", DataText(data)>>)

\* the try block of a tool from the await on
Format(tool, a, data) ==
    CASE tool = "get_dropoff_quote" -> get_dropoff_quote_Format(a, data)
      [] tool = "get_pickup_quote" -> get_pickup_quote_Format(a, data)
      [] tool = "confirm_dropoff" -> confirm_dropoff_Format(a, data)
      [] tool = "confirm_pickup" -> confirm_pickup_Format(a, data)
      [] tool = "get_order_list" -> get_order_list_Format(a, data)
      [] tool = "get_route_details" -> get_route_details_Format(a, data)
      [] tool = "get_order_by_token" -> get_order_by_token_Format(a, data)
      [] tool = "track_order_by_id" -> track_order_by_id_Format(a, data)
      [] tool = "track_order_by_access_key" -> track_order_by_access_key_Format(a, data)
      [] tool = "get_driver_location" -> get_driver_location_Format(a, data)
      [] tool = "set_delivery_ready" ->
            StatusChange(a, data, " marked as ready for delivery.")
      [] tool = "set_laboratory_ready" ->
            StatusChange(a, data, " marked as ready for pick-up from laboratory.")
      [] tool = "set_dropoff_received" ->
            StatusChange(a, data, " marked as received at drop-off location.")

\* await client.post/put/get, raise_for_status(), response.json() and the
\* formatting: the text, or the exception raised inside the try block
Try(tool, a, reply) ==
    CASE reply.kind = "timeout" -> Raised("ReadTimeout")
      [] reply.kind = "connect_error" -> Raised("ConnectError")
      [] reply.kind = "status" -> StatusError(reply.status_code, reply.text)
      [] reply.kind = "not_json" -> Raised("JSONDecodeError")
      [] reply.kind = "json" -> Format(tool, a, reply.data)

\* the wording after "Error" in the except Exception clause of each tool
ErrorLabel(tool) ==
    CASE tool = "get_dropoff_quote" -> " getting quote: "
      [] tool = "get_pickup_quote" -> " getting pickup quote: "
      [] tool = "confirm_dropoff" -> " confirming order: "
      [] tool = "confirm_pickup" -> " confirming pickup order: "
      [] tool = "get_order_list" -> " getting order list: "
      [] tool = "get_route_details" -> " getting route details: "
      [] tool = "get_order_by_token" -> " getting order by token: "
      [] tool = "track_order_by_id" -> " tracking order: "
      [] tool = "track_order_by_access_key" -> " tracking order: "
      [] tool = "get_driver_location" -> " getting driver location: "
      [] tool = "set_delivery_ready" -> " setting delivery ready: "
      [] tool = "set_laboratory_ready" -> " setting laboratory ready: "
      [] tool = "set_dropoff_received" -> " setting dropoff received: "

\* a variant without the except Exception clause
Except_StatusOnly(tool, outcome) ==
    IF outcome.t = "HTTPStatusError"
    THEN PyStr(<<"Error", ": HTTP ", outcome.status_code, " - ", outcome.text>>)
    ELSE outcome

\* except httpx.HTTPStatusError / except Exception: the text returned
\* for the outcome of the try block; the text of an exception is one
\* opaque word
Except(tool, outcome) ==
    IF outcome.t = "HTTPStatusError"
    THEN PyStr(<<"Error", ": HTTP ", outcome.status_code, " - ", outcome.text>>)
    ELSE IF outcome.t = "Exception"
    THEN PyStr(<<"Error", ErrorLabel(tool), "str(e)">>)
    ELSE outcome

\* the response resumes the coroutine, which runs to its return
UpstreamResponds(reply) ==
    /\ invocation.pc = "awaiting"
    /\ invocation' = [invocation EXCEPT
                         !.pc = "returned",
                         !.reply = reply,
                         !.result = Except(invocation.tool, Try(invocation.tool, invocation.args, reply))]
    /\ UNCHANGED <<SENPEX_CLIENT_ID, SENPEX_SECRET_ID, outbound, previous>>

(***************************************************************************)
(* The tool specification: any tool may be invoked with any arguments,     *)
(* whatever was invoked before, and the upstream API may answer anything.  *)
(***************************************************************************)
ToolSpecInit ==
    /\ AgentInit
    /\ ToolInit
    /\ pipeline = NoPipeline

ToolNext ==
    \/ \E a \in Args("get_dropoff_quote") : get_dropoff_quote(a) /\ UNCHANGED <<agentVars, pipeline>>
    \/ \E a \in Args("get_pickup_quote") : get_pickup_quote(a) /\ UNCHANGED <<agentVars, pipeline>>
    \/ \E a \in Args("confirm_dropoff") : confirm_dropoff(a) /\ UNCHANGED <<agentVars, pipeline>>
    \/ \E a \in Args("confirm_pickup") : confirm_pickup(a) /\ UNCHANGED <<agentVars, pipeline>>
    \/ \E a \in Args("get_order_list") : get_order_list(a) /\ UNCHANGED <<agentVars, pipeline>>
    \/ \E a \in Args("get_route_details") : get_route_details(a) /\ UNCHANGED <<agentVars, pipeline>>
    \/ \E a \in Args("get_order_by_token") : get_order_by_token(a) /\ UNCHANGED <<agentVars, pipeline>>
    \/ \E a \in Args("track_order_by_id") : track_order_by_id(a) /\ UNCHANGED <<agentVars, pipeline>>
    \/ \E a \in Args("track_order_by_access_key") :
         track_order_by_access_key(a) /\ UNCHANGED <<agentVars, pipeline>>
    \/ \E a \in Args("get_driver_location") : get_driver_location(a) /\ UNCHANGED <<agentVars, pipeline>>
    \/ \E a \in Args("set_delivery_ready") : set_delivery_ready(a) /\ UNCHANGED <<agentVars, pipeline>>
    \/ \E a \in Args("set_laboratory_ready") : set_laboratory_ready(a) /\ UNCHANGED <<agentVars, pipeline>>
    \/ \E a \in Args("set_dropoff_received") : set_dropoff_received(a) /\ UNCHANGED <<agentVars, pipeline>>
    \/ \E reply \in UpstreamReplies : UpstreamResponds(reply) /\ UNCHANGED <<agentVars, pipeline>>

SpecTool == ToolSpecInit /\ [][ToolNext]_vars

(***************************************************************************)
(* The agent specification.  Every read of datetime.now() returns the      *)
(* current instant of the clock.                                           *)
(***************************************************************************)
Init ==
    /\ AgentInit
    /\ ToolInit
    /\ SENPEX_CLIENT_ID = "client"
    /\ SENPEX_SECRET_ID = "secret"
    /\ pipeline = NoPipeline

Next ==
    \/ \E c \in Calls, request \in Requests :
         /\ ProcessMessage(c, request, clock, clock, clock, clock, clock, clock)
         /\ UNCHANGED <<toolVars, pipeline>>
    \/ \E c \in Calls, reply \in AgentReplies :
         /\ ToolReturns(c, reply, clock, clock, clock)
         /\ UNCHANGED <<toolVars, pipeline>>
    \/ \E limit \in Limits : get_tool_logs(limit) /\ UNCHANGED <<toolVars, pipeline>>
    \/ \E session_id \in ManagedIds : get_session(session_id) /\ UNCHANGED <<toolVars, pipeline>>
    \/ list_sessions /\ UNCHANGED <<toolVars, pipeline>>
    \/ \E session_id \in ManagedIds : delete_session(session_id) /\ UNCHANGED <<toolVars, pipeline>>

Spec == Init /\ [][Next]_vars

(***************************************************************************)
(* The timed agent specification.  The clock never runs backwards; every   *)
(* read of datetime.now() returns the instant of the read before it or a   *)
(* later one, up to MaxTime.  MaxTimedCalls calls are made.                *)
(***************************************************************************)
TimedNext ==
    \/ \E c \in 1..MaxTimedCalls, request \in Requests :
         \E t1 \in clock..MaxTime : \E t2 \in t1..MaxTime : \E t3 \in t2..MaxTime :
         \E t4 \in t3..MaxTime : \E t5 \in t4..MaxTime : \E t6 \in t5..MaxTime :
             /\ ProcessMessage(c, request, t1, t2, t3, t4, t5, t6)
             /\ UNCHANGED <<toolVars, pipeline>>
    \/ \E c \in 1..MaxTimedCalls, reply \in AgentReplies :
         \E t1 \in clock..MaxTime : \E t2 \in t1..MaxTime : \E t3 \in t2..MaxTime :
             /\ ToolReturns(c, reply, t1, t2, t3)
             /\ UNCHANGED <<toolVars, pipeline>>
    \/ \E limit \in Limits : get_tool_logs(limit) /\ UNCHANGED <<toolVars, pipeline>>
    \/ \E session_id \in ManagedIds : get_session(session_id) /\ UNCHANGED <<toolVars, pipeline>>
    \/ list_sessions /\ UNCHANGED <<toolVars, pipeline>>
    \/ \E session_id \in ManagedIds : delete_session(session_id) /\ UNCHANGED <<toolVars, pipeline>>

SpecTimed == Init /\ [][TimedNext]_vars

(***************************************************************************)
(* The agent specification with its scheduling: the POST of call_mcp_tool  *)
(* goes through httpx.AsyncClient(timeout=30.0), so every suspended call   *)
(* is resumed, by the reply of the MCP server or by the timeout.           *)
(***************************************************************************)
SpecLive ==
    /\ Spec
    /\ \A c \in Calls :
         WF_vars(\E reply \in AgentReplies :
                    /\ ToolReturns(c, reply, clock, clock, clock)
                    /\ UNCHANGED <<toolVars, pipeline>>)

(***************************************************************************)
(* The pipeline specification: every text is analysed, and its arguments   *)
(* are extracted when the analysis selects a tool.                         *)
(***************************************************************************)
TextInit ==
    /\ AgentInit
    /\ ToolInit
    /\ SENPEX_CLIENT_ID = "client"
    /\ SENPEX_SECRET_ID = "secret"
    /\ \E message \in TextsOf(MaxTokens) :
         pipeline = [NoPipeline EXCEPT !.pc = "received", !.message = message]

\* intent_analysis = analyze_intent(request.message)
AnalyzeIntent ==
    /\ pipeline.pc = "received"
    /\ pipeline' = [pipeline EXCEPT !.pc = "analyzed",
                                    !.intent_analysis = analyze_intent(pipeline.message)]
    /\ UNCHANGED <<agentVars, toolVars>>

\* `if intent_analysis["tool"]:` and "Extract arguments based on tool"
ExtractArgs ==
    /\ pipeline.pc = "analyzed"
    /\ pipeline.intent_analysis.tool # None
    /\ pipeline' = [pipeline EXCEPT !.pc = "extracted",
                                    !.arguments = ExtractArguments(pipeline.intent_analysis.tool,
                                                                   pipeline.message)]
    /\ UNCHANGED <<agentVars, toolVars>>

TextNext ==
    \/ AnalyzeIntent
    \/ ExtractArgs

SpecText == TextInit /\ [][TextNext]_vars

(***************************************************************************)
(* Properties of the agent.                                                *)
(***************************************************************************)
UserMessageCount(session) ==
    Cardinality({i \in 1..Len(session.messages) : session.messages[i].role = "user"})

Awaiting == {c \in Calls : calls[c].pc = "awaiting"}

\* C1: for every session in the store, message_count equals the number of
\* user-role messages of its transcript, also while several process_message
\* calls of that session are suspended in their tool call.
C1_MessageCountMatchesTranscript ==
    \A sid \in DOMAIN sessions :
        sessions[sid].message_count = UserMessageCount(sessions[sid])

\* two calls of one stored session are suspended, both user messages counted
C1_Witness ==
    \E c, d \in Awaiting :
        /\ c # d
        /\ calls[c].session_id = calls[d].session_id
        /\ calls[c].session_id \in DOMAIN sessions
        /\ sessions[calls[c].session_id].message_count = 2

\* the request of the call that leaves "idle" in this step
StartedRequest(c) ==
    IF calls'[c].pc = "awaiting" THEN calls'[c].request ELSE replies'.arg

\* C2 (as claimed): a process_message call with a supplied session id that is
\* not a key of the store fails with NotFound, whatever the string is, and a
\* session is created only when no id is supplied.
C2_UnknownSuppliedIdIsNotFound ==
    [][\A c \in Calls :
          (calls[c].pc = "idle" /\ calls'[c].pc # "idle") =>
              LET request == StartedRequest(c) IN
              /\ (request.session_id # None /\ request.session_id \notin DOMAIN sessions)
                    => (/\ calls'[c].pc = "done"
                        /\ replies'.op = "process_message"
                        /\ replies'.result = HTTPException(404))
              /\ (DOMAIN sessions' # DOMAIN sessions) => request.session_id = None]_vars

Min(a, b) == IF a < b THEN a ELSE b

\* C3 (as claimed): get_tool_logs(limit), limit >= 0, returns exactly the
\* last min(limit, len) records of the log in append order.
C3_LogsAreTheLastLimitRecords ==
    (replies.op = "get_tool_logs" /\ replies.arg >= 0
        /\ replies.result.total = Len(tool_logs)) =>
        LET n == Len(tool_logs)
            m == Min(replies.arg, n)
        IN replies.result.logs = SubSeq(tool_logs, n - m + 1, n)

C5_OnlyNotFoundFaults ==
    (replies.op = "process_message" /\ IsFault(replies.result)) =>
        /\ replies.result = HTTPException(404)
        /\ replies.arg.session_id \notin DOMAIN sessions

(***************************************************************************)
(* Properties of the delivery tools.                                       *)
(***************************************************************************)
Returned == invocation.pc = "returned"

CredentialMissing == SENPEX_CLIENT_ID = "" \/ SENPEX_SECRET_ID = ""

\* C6: a tool invocation never raises past its own boundary: whatever the
\* network call ends in (timeout, connection failure, error status, a body
\* that is no JSON, JSON of an unexpected shape) and whatever arguments it
\* was given, the invocation returns a string, and after a timeout or a
\* transport failure the string contains the error indicator "Error".
C6_ToolsNeverRaise ==
    Returned =>
        /\ invocation.result.t = "str"
        /\ invocation.reply.kind \in {"timeout", "connect_error"} =>
               HasWord(invocation.result.v, "Error")

\* get_pickup_quote with two pickup addresses has timed out and returned
C6_Witness ==
    /\ Returned
    /\ invocation.tool = "get_pickup_quote"
    /\ Len(invocation.args.pickup_addresses) = 2
    /\ invocation.reply.kind = "timeout"
    /\ HasWord(invocation.result.v, "Error")

\* C7: for every tool, when the client identifier or the secret identifier
\* is not configured the invocation sends no request and returns a string
\* containing "credentials"; the check comes before every other check, so
\* arguments that fail a later check get this text too.
C7_MissingCredentialsNoRequest ==
    (CredentialMissing /\ invocation.pc # "idle") =>
        /\ Returned
        /\ outbound = <<>>
        /\ invocation.result.t = "str"
        /\ HasWord(invocation.result.v, "credentials")

\* get_pickup_quote, invoked with the secret missing and with arguments its
\* own validation rejects, has returned the credentials text
C7_Witness ==
    /\ SENPEX_CLIENT_ID # ""
    /\ SENPEX_SECRET_ID = ""
    /\ Returned
    /\ invocation.tool = "get_pickup_quote"
    /\ invocation.args.taken_asap = 0
    /\ invocation.args.schedule_date_local = ""
    /\ outbound = <<>>
    /\ HasWord(invocation.result.v, "credentials")

\* C8: for every tool, a JSON object whose "code" field is not the success
\* sentinel "0" (or is absent) is never treated as success: the string
\* returned surfaces the raw response.
C8_SuccessOnlyOnCodeZero ==
    (/\ Returned
     /\ invocation.reply.kind = "json"
     /\ invocation.reply.data.t = "dict"
     /\ GetOr(invocation.reply.data, "code", PyNone) # JStr("0")) =>
        HasWord(invocation.result.v, DataText(invocation.reply.data))

\* C9: no request carries an optional field with an empty or null value:
\* an optional argument left at its empty default is omitted from the
\* body.  (The required arguments of the model are never empty.)
C9_EmptyOptionalsAreOmitted ==
    \A i \in 1..Len(outbound) :
        outbound[i].body.t = "dict" =>
            \A key \in DOMAIN outbound[i].body.v :
                outbound[i].body.v[key] \notin {JStr(""), PyNone}

\* both credential headers, with the configured values
CarriesCredentials(request) ==
    /\ {"clientid", "secretid"} \subseteq DOMAIN request.headers
    /\ request.headers["clientid"] = SENPEX_CLIENT_ID
    /\ request.headers["secretid"] = SENPEX_SECRET_ID
    /\ request.headers["clientid"] # ""
    /\ request.headers["secretid"] # ""

\* C10 as stated: every invocation that passes the credential check sends
\* exactly one request, carrying both credential headers.
C10_ExactlyOneRequest ==
    (~CredentialMissing /\ invocation.pc # "idle") =>
        /\ Len(outbound) = 1
        /\ CarriesCredentials(outbound[1])

\* the arguments get_pickup_quote rejects before it builds a request
RejectedByValidation ==
    /\ invocation.tool = "get_pickup_quote"
    /\ \/ invocation.args.taken_asap = 0 /\ invocation.args.schedule_date_local = ""
       \/ Len(invocation.args.pickup_addresses) = 0

\* C10 amended: an invocation that passes the credential check sends
\* exactly one request, except get_pickup_quote invoked with arguments its
\* validation rejects, which sends none; every request carries both
\* credential headers; and once a request is awaited no further request is
\* sent, whatever the response (failure and timeout included): the
\* invocation returns.
C10_OneRequestUnlessRejected ==
    /\ [](/\ Len(outbound) <= 1
          /\ \A i \in 1..Len(outbound) : CarriesCredentials(outbound[i])
          /\ (~CredentialMissing /\ invocation.pc # "idle") =>
                 (Len(outbound) = 1 <=> ~RejectedByValidation))
    /\ [][invocation.pc = "awaiting" =>
              (outbound' = outbound /\ invocation'.pc = "returned")]_vars

\* get_pickup_quote passed its validation, its one request timed out and
\* it returned without a second request
C10_Witness ==
    /\ Returned
    /\ invocation.tool = "get_pickup_quote"
    /\ invocation.reply.kind = "timeout"
    /\ Len(outbound) = 1
    /\ CarriesCredentials(outbound[1])

(***************************************************************************)
(* Properties of the intent pipeline.                                      *)
(***************************************************************************)
\* the text contains, in any case, one of the keywords
Mentions(text, words) == \E word \in words : HasSubstring(Lower(text), word)

Analyzed == pipeline.pc \in {"analyzed", "extracted"}

\* C11: the classification of a text is fixed by its keywords in priority
\* order: a quote keyword gives get_quote / get_dropoff_quote / 0.8 whatever
\* else the text contains; otherwise a tracking keyword gives track_order /
\* track_order / 0.8; otherwise a test keyword gives test / ping / 0.9;
\* otherwise general / no tool / 0.5.  The tool is none exactly when no
\* keyword matches.
C11_ClassifyByPriority ==
    Analyzed =>
        LET text == pipeline.message
            result == pipeline.intent_analysis
            quote == Mentions(text, QuoteWords)
            track == Mentions(text, TrackWords)
            test == Mentions(text, TestWords)
        IN
        /\ quote =>
              result = [intent |-> "get_quote", tool |-> "get_dropoff_quote",
                        confidence |-> 8]
        /\ ~quote /\ track =>
              result = [intent |-> "track_order", tool |-> "track_order",
                        confidence |-> 8]
        /\ ~quote /\ ~track /\ test =>
              result = [intent |-> "test", tool |-> "ping", confidence |-> 9]
        /\ ~quote /\ ~track /\ ~test =>
              result = [intent |-> "general", tool |-> None, confidence |-> 5]
        /\ (result.tool = None) <=> (~quote /\ ~track /\ ~test)

\* a text with a tracking keyword before a quote keyword is a quote inquiry
C11_Witness ==
    /\ Analyzed
    /\ pipeline.message = <<"t", "r", "a", "c", "k", " ", "P", "r", "i", "c", "e">>
    /\ pipeline.intent_analysis.intent = "get_quote"

\* s[i..j] is a run of five or more digits that no digit stands next to
IsDigitRun(s, i, j) ==
    /\ j - i + 1 >= 5
    /\ \A k \in i..j : s[k] \in Digits
    /\ (i = 1 \/ s[i - 1] \notin Digits)
    /\ (j = Len(s) \/ s[j + 1] \notin Digits)

HasDigitRun(s) == \E i \in 1..Len(s) : \E j \in i..Len(s) : IsDigitRun(s, i, j)

\* the leftmost run of five or more digits
FirstDigitRun(s) ==
    LET i == CHOOSE a \in 1..Len(s) :
                 /\ \E j \in a..Len(s) : IsDigitRun(s, a, j)
                 /\ \A b \in 1..(a - 1) : ~\E j \in b..Len(s) : IsDigitRun(s, b, j)
        j == CHOOSE b \in i..Len(s) : IsDigitRun(s, i, b)
    IN SubSeq(s, i, j)

\* C12: the order identifier extracted for track_order is the first run of
\* five or more consecutive digits of the text, whatever stands directly
\* before and after the run, and the fallback "12345" when the text has no
\* such run.
C12_OrderIdIsFirstDigitRun ==
    pipeline.pc = "extracted" /\ pipeline.intent_analysis.tool = "track_order" =>
        pipeline.arguments.order_id =
            IF HasDigitRun(pipeline.message) THEN FirstDigitRun(pipeline.message)
            ELSE FallbackOrderId

(***************************************************************************)
(* Properties of the session store and the tool log.                       *)
(***************************************************************************)
\* the records of the log that belong to the session
RecordsOf(logs, sid) == {i \in 1..Len(logs) : logs[i].session_id = sid}

\* C13: delete_session on a session of the store removes it from the store
\* and from the listing of list_sessions and leaves the tool log as it is:
\* get_tool_logs still returns every record logged for the session.
C13_DeleteKeepsTheLog ==
    [][\A sid \in DOMAIN sessions :
          (replies' # replies /\ replies'.op = "delete_session" /\ replies'.arg = sid) =>
              /\ sid \notin DOMAIN sessions'
              /\ \A listed \in SessionsReply(sessions').sessions : listed.session_id # sid
              /\ tool_logs' = tool_logs
              /\ LET returned == ToolLogsReply(tool_logs', Len(tool_logs')).logs IN
                 \A i \in RecordsOf(tool_logs, sid) :
                     \E j \in 1..Len(returned) : returned[j] = tool_logs[i]]_vars

\* a session with a logged tool call has just been deleted
C13_Witness ==
    /\ replies.op = "delete_session"
    /\ replies.result.t = "deleted"
    /\ replies.arg \notin DOMAIN sessions
    /\ RecordsOf(tool_logs, replies.arg) # {}

\* the sequence a is an initial part of the sequence b
IsPrefix(a, b) == Len(a) <= Len(b) /\ SubSeq(b, 1, Len(a)) = a

\* C14: the tool log is append-only: every step of process_message,
\* delete_session, get_tool_logs, list_sessions and get_session leaves the
\* log it found as a prefix of the log it leaves, so no record is ever
\* removed, reordered or modified.
C14_LogIsAppendOnly ==
    [][IsPrefix(tool_logs, tool_logs')]_vars

\* two records were logged, their session was deleted and the log was read
C14_Witness ==
    /\ Len(tool_logs) = 2
    /\ tool_logs[1].session_id \notin DOMAIN sessions
    /\ tool_logs[1].id # tool_logs[2].id
    /\ replies.op = "get_tool_logs"
    /\ replies.result.total = 2

\* the transcript of every session dict alive: those of the store and those
\* a suspended call still holds
Transcripts ==
    [sid \in DOMAIN sessions \cup DOMAIN detached |-> SessionOf(sid).messages]

\* C15: a transcript only grows by appending: in every step, the transcript
\* of every session that is still alive after the step has the transcript
\* before the step as a prefix, also while several process_message calls of
\* the session are in flight.
C15_TranscriptIsAppendOnly ==
    [][\A sid \in DOMAIN Transcripts \cap DOMAIN Transcripts' :
          IsPrefix(Transcripts[sid], Transcripts'[sid])]_vars

\* two calls of one session overlapped: both user messages, then both answers
C15_Witness ==
    \E sid \in DOMAIN sessions :
        /\ Len(sessions[sid].messages) = 4
        /\ sessions[sid].messages[1].role = "user"
        /\ sessions[sid].messages[2].role = "user"
        /\ sessions[sid].messages[3].role = "assistant"
        /\ sessions[sid].messages[4].role = "assistant"
        /\ Awaiting = {}

\* C16: get_session on an identifier that is not in the store, never issued
\* or deleted, signals NotFound and changes neither the session store nor
\* the tool log.
C16_UnknownSessionIsNotFound ==
    [][(replies' # replies /\ replies'.op = "get_session"
            /\ replies'.arg \notin DOMAIN sessions) =>
          /\ replies'.result = HTTPException(404)
          /\ sessions' = sessions
          /\ detached' = detached
          /\ tool_logs' = tool_logs]_vars

\* get_session has just answered NotFound for the deleted session of a
\* logged tool call
C16_Witness ==
    /\ replies.op = "get_session"
    /\ replies.result = HTTPException(404)
    /\ replies.arg # StaleId
    /\ replies.arg \notin DOMAIN sessions
    /\ RecordsOf(tool_logs, replies.arg) # {}

\* C17: create followed by get always succeeds: whenever a step creates a
\* session, for whatever user identifier the request carried (the default,
\* or null), get_session on the new identifier, applied to the store as
\* create_session left it, answers with the session and reports zero
\* messages, and the transcript of the created session is empty.
C17_CreateThenGetSucceeds ==
    [][\A sid \in DOMAIN sessions' \ DOMAIN sessions :
          LET created == NewSession(sessions'[sid].user_id, sessions'[sid].created_at,
                                    sessions'[sid].created_at)
              answer == SessionReply(With(sessions, sid, created), sid)
          IN
          /\ answer.t = "SessionInfo"
          /\ answer.session_id = sid
          /\ answer.message_count = 0
          /\ created.messages = <<>>]_vars

\* no process_message call of the session is suspended in its tool call
Quiescent(sid) == sid \notin HeldBy(Calls)

\* C18: every append to a transcript, of either role, bumps last_activity:
\* in every quiescent state of a session, last_activity is not earlier than
\* the timestamp of the last message of its transcript, and last_activity
\* is never earlier than created_at.
C18_LastActivityCoversTranscript ==
    \A sid \in DOMAIN sessions :
        LET session == sessions[sid] IN
        /\ session.last_activity >= session.created_at
        /\ (Quiescent(sid) /\ Len(session.messages) > 0) =>
              session.last_activity >= session.messages[Len(session.messages)].timestamp

\* C19: a process_message call without a session id creates exactly one
\* session, and the id it answers with stays usable until it is deleted:
\* every later process_message call that supplies an id of the store is
\* not rejected, creates no session and appends to the transcript of that
\* session, and every later get_session call on an id of the store answers
\* with that session.
C19_IssuedIdStaysUsable ==
    [][/\ \A c \in Calls :
            (calls[c].pc = "idle" /\ calls'[c].pc # "idle") =>
                LET request == StartedRequest(c) IN
                /\ request.session_id = None =>
                      /\ Cardinality(DOMAIN sessions' \ DOMAIN sessions) = 1
                      /\ calls'[c].session_id \in DOMAIN sessions' \ DOMAIN sessions
                /\ request.session_id \in DOMAIN sessions =>
                      /\ calls'[c].session_id = request.session_id
                      /\ DOMAIN sessions' = DOMAIN sessions
                      /\ Len(sessions'[request.session_id].messages)
                            > Len(sessions[request.session_id].messages)
                      /\ IsPrefix(sessions[request.session_id].messages,
                                  sessions'[request.session_id].messages)
       /\ (replies' # replies /\ replies'.op = "get_session"
              /\ replies'.arg \in DOMAIN sessions) =>
            /\ replies'.result.t = "SessionInfo"
            /\ replies'.result.session_id = replies'.arg
            /\ replies'.result.message_count = sessions[replies'.arg].message_count]_vars

(***************************************************************************)
(* Properties of the tools: no local quote or order state.                 *)
(***************************************************************************)
ConfirmTools == {"confirm_dropoff", "confirm_pickup"}

TransitionTools == {"set_delivery_ready", "set_laboratory_ready", "set_dropoff_received"}

\* C20: the request of a confirm or status-transition tool is determined by
\* the arguments of the call and the credentials alone.  Whatever tool ran
\* before (none, a quote, the same confirm, another transition), a call
\* with configured credentials sends one request that carries its token or
\* order id, and a call that repeats the tool and the arguments of the call
\* before it sends the very request that call sent.
C20_RequestFromArgumentsAlone ==
    [][(/\ invocation.pc \in {"idle", "returned"}
        /\ invocation'.tool \in ConfirmTools \cup TransitionTools
        /\ CredentialsConfigured(SENPEX_CLIENT_ID, SENPEX_SECRET_ID)) =>
          /\ invocation'.pc = "awaiting"
          /\ Len(outbound') = 1
          /\ CarriesCredentials(outbound'[1])
          /\ invocation'.tool \in ConfirmTools =>
                outbound'[1].body.v.api_token = JStr(invocation'.args.api_token)
          /\ invocation'.tool \in TransitionTools =>
                outbound'[1].body = JObj([id |-> JStr(invocation'.args.order_id)])
          /\ (invocation.tool = invocation'.tool /\ invocation.args = invocation'.args) =>
                outbound' = outbound]_vars

\* confirm_dropoff runs again right after a confirm_dropoff run and sends
\* the token again
C20_Witness ==
    /\ invocation.pc = "awaiting"
    /\ invocation.tool = "confirm_dropoff"
    /\ previous = "confirm_dropoff"
    /\ Len(outbound) = 1
    /\ outbound[1].body.v.api_token = JStr("tok1")

(***************************************************************************)
(* Properties of the message cycle.                                        *)
(***************************************************************************)
\* C21: the response of process_message always carries a list of tool
\* invocation summaries: one entry when a tool was invoked, and an empty
\* list when no tool was selected.
C21_ToolCallsIsAlwaysAList ==
    (replies.op = "process_message" /\ replies.result.t = "MessageResponse") =>
        /\ replies.result.tool_calls.t = "list"
        /\ Len(replies.result.tool_calls.v) =
              (IF IntentOf[replies.arg.message].tool = None THEN 0 ELSE 1)

\* the assistant messages the step appended to the transcript of sid
NewAssistantMessages(sid) ==
    {i \in (Len(Transcripts[sid]) + 1)..Len(Transcripts'[sid]) :
        Transcripts'[sid][i].role = "assistant"}

\* every suspended call is resumed and ends
NoCallStaysSuspended ==
    \A c \in Calls : (calls[c].pc = "awaiting") ~> (calls[c].pc = "done")

\* C22: every process_message call that resolves its session eventually
\* returns a response, and on returning it has appended exactly one
\* assistant message, holding the response text, to the transcript it
\* resolved; no call stays suspended forever, the tool call being bound
\* to complete or time out.
C22_EveryCycleReturnsItsResponse ==
    /\ [][\A c \in Calls :
            (calls[c].pc # "done" /\ calls'[c].pc = "done"
                /\ calls'[c].session_id # None) =>
                LET sid == calls'[c].session_id IN
                /\ replies'.op = "process_message"
                /\ replies'.result.t = "MessageResponse"
                /\ replies'.result.session_id = sid
                /\ (sid \in DOMAIN Transcripts \cap DOMAIN Transcripts') =>
                      /\ Cardinality(NewAssistantMessages(sid)) = 1
                      /\ \A i \in NewAssistantMessages(sid) :
                            Transcripts'[sid][i].content = replies'.result.response]_vars
    /\ NoCallStaysSuspended

\* the last element of a non-empty sequence
Last(seq) == seq[Len(seq)]

\* C23: the steps of a message cycle that selects a tool come in this
\* order.  When the tool call is issued, the user message is the last
\* message of the transcript and the message count is bumped, and nothing
\* is logged yet.  When the call has returned, the log record is written
\* after the tool call was issued and not later than the assistant message
\* is appended, and the response is produced last.
C23_CycleStepsInOrder ==
    [][\A c \in Calls :
          /\ (calls[c].pc = "idle" /\ calls'[c].pc = "awaiting") =>
                LET sid == calls'[c].session_id
                    before == IF sid \in DOMAIN sessions THEN sessions[sid].message_count
                              ELSE 0
                IN
                /\ Last(sessions'[sid].messages).role = "user"
                /\ Last(sessions'[sid].messages).content = PyStr(calls'[c].request.message)
                /\ sessions'[sid].message_count = before + 1
                /\ Len(mcp_posts') = Len(mcp_posts) + 1
                /\ Last(mcp_posts').call = c
                /\ tool_logs' = tool_logs
                /\ Last(sessions'[sid].messages).timestamp <= clock'
          /\ (calls[c].pc = "awaiting" /\ calls'[c].pc = "done") =>
                LET sid == calls[c].session_id IN
                /\ mcp_posts' = mcp_posts
                /\ Len(tool_logs') = Len(tool_logs) + 1
                /\ Last(tool_logs').session_id = sid
                /\ clock <= Last(tool_logs').timestamp
                /\ (sid \in DOMAIN Transcripts') =>
                      /\ Len(Transcripts'[sid]) = Len(Transcripts[sid]) + 1
                      /\ Last(Transcripts'[sid]).role = "assistant"
                      /\ Last(tool_logs').timestamp <= Last(Transcripts'[sid]).timestamp
                      /\ (replies'.result.t = "MessageResponse") =>
                            Last(Transcripts'[sid]).timestamp <= replies'.result.timestamp]_vars

\* a cycle with a tool call has ended: the user message at instant 0, the
\* log record and the assistant message at instant 1
C23_Witness ==
    /\ calls[1].pc = "done"
    /\ Len(tool_logs) = 1
    /\ tool_logs[1].timestamp = MaxTime
    /\ tool_logs[1].session_id \in DOMAIN sessions
    /\ Len(sessions[tool_logs[1].session_id].messages) = 2
    /\ sessions[tool_logs[1].session_id].messages[1].timestamp = 0
    /\ sessions[tool_logs[1].session_id].messages[2].timestamp = MaxTime
    /\ replies.op = "process_message"
    /\ replies.result.t = "MessageResponse"

\* C24: a process_message call that fails with NotFound leaves all state
\* unchanged: no session is created, no transcript, message count or
\* last_activity changes, and no tool call is issued or logged.
C24_NotFoundChangesNothing ==
    [][\A c \in Calls :
          (calls[c].pc = "idle" /\ calls'[c].pc = "done"
              /\ replies'.op = "process_message"
              /\ replies'.result = HTTPException(404)) =>
              /\ sessions' = sessions
              /\ detached' = detached
              /\ tool_logs' = tool_logs
              /\ mcp_posts' = mcp_posts
              /\ uuids' = uuids]_vars

\* the second call named a deleted session and failed, next to a session
\* with a transcript and a logged tool call
C24_Witness ==
    /\ calls[2] = DoneCall(None)
    /\ replies.op = "process_message"
    /\ replies.result = HTTPException(404)
    /\ replies.arg.session_id # StaleId
    /\ Len(tool_logs) = 1

(***************************************************************************)
(* Properties of concurrent message cycles.                                *)
(***************************************************************************)
\* the roles are user, assistant, user, assistant, ... from the first message
Alternating(transcript) ==
    \A i \in 1..Len(transcript) :
        transcript[i].role = (IF i % 2 = 1 THEN "user" ELSE "assistant")

\* C25 (as claimed): in every session transcript the roles strictly
\* alternate user, assistant, user, assistant, ..., also while several
\* process_message calls of the session are in flight.
C25_RolesAlternate ==
    \A sid \in DOMAIN Transcripts : Alternating(Transcripts[sid])

\* the calls of the session that are suspended before the step or after
\* it, or that run from start to end in the step
InFlight(sid) ==
    {c \in Calls : \/ (calls[c].pc = "awaiting" /\ calls[c].session_id = sid)
                   \/ (calls'[c].pc = "awaiting" /\ calls'[c].session_id = sid)
                   \/ (calls[c].pc = "idle" /\ calls'[c].pc = "done"
                          /\ calls'[c].session_id = sid)}

\* C25 (amended): the roles of a transcript alternate, each assistant
\* message directly following the user message it answers, as long as at
\* most one process_message call of the session is in flight at a time:
\* every step with at most one such call in flight keeps an alternating
\* transcript alternating.
C25_RolesAlternateWithoutOverlap ==
    [][\A sid \in DOMAIN Transcripts' :
          (/\ Cardinality(InFlight(sid)) <= 1
           /\ (sid \in DOMAIN Transcripts => Alternating(Transcripts[sid]))) =>
              Alternating(Transcripts'[sid])]_vars

\* a session answered two calls one after the other: a tool call, then a
\* message without a tool
C25_Witness ==
    \E sid \in DOMAIN sessions :
        /\ Len(sessions[sid].messages) = 4
        /\ Alternating(sessions[sid].messages)
        /\ sessions[sid].messages[1].content = PyStr(MsgTrack)
        /\ sessions[sid].messages[3].content = PyStr(MsgThanks)
        /\ Awaiting = {}

\* the identifiers uuid4() has returned so far
IssuedIds == {uuid4(n) : n \in 0..(uuids - 1)}

\* C26: deletion is final: an identifier that was issued and is no key of
\* the session store (a deleted session) is not a key after any step and
\* is not listed by list_sessions, also when the step completes a
\* process_message call of that session that was suspended in its tool
\* call when the session was deleted.
C26_DeletionIsFinal ==
    [][\A sid \in IssuedIds \ DOMAIN sessions :
          /\ sid \notin DOMAIN sessions'
          /\ \A listed \in SessionsReply(sessions').sessions : listed.session_id # sid]_vars

\* a call returned its response for a session that was deleted while the
\* call was suspended
C26_Witness ==
    /\ replies.op = "process_message"
    /\ replies.result.t = "MessageResponse"
    /\ replies.result.tool_calls.t = "list"
    /\ replies.result.session_id \notin DOMAIN sessions
    /\ replies.result.session_id \in IssuedIds

\* the calls that take a step of process_message in the current step
Stepping == {c \in Calls : calls'[c] # calls[c]}

\* C27: sessions are isolated: a step of a process_message call of session
\* A leaves every other session B as it was (its transcript, message
\* count, last_activity, owner and creation time), whether B is in the
\* store or held by another suspended call, under every interleaving of
\* calls on different sessions.
C27_SessionsAreIsolated ==
    [][\A c \in Stepping :
          /\ \A B \in DOMAIN sessions \ {calls'[c].session_id} :
                 /\ B \in DOMAIN sessions'
                 /\ sessions'[B] = sessions[B]
          /\ \A B \in DOMAIN detached \ {calls'[c].session_id} :
                 /\ B \in DOMAIN detached'
                 /\ detached'[B] = detached[B]]_vars

\* a call of one session ran from start to end while a call of another
\* session was suspended in its tool call
C27_Witness ==
    \E c, d \in Calls :
        /\ calls[c].pc = "awaiting"
        /\ calls[d].pc = "done"
        /\ c < d
        /\ calls[d].session_id \in DOMAIN sessions \ {calls[c].session_id}
        /\ calls[c].session_id \in DOMAIN sessions
        /\ Len(sessions[calls[d].session_id].messages) = 2
        /\ Len(sessions[calls[c].session_id].messages) = 1

\* the functions decorated with @mcp.tool(), each with the parameters its
\* signature declares without a default
RequiredParameters ==
    [get_dropoff_quote |-> {"user_email", "user_name", "pickup_addr", "dropoff_addr"},
     get_pickup_quote |-> {"user_email", "order_name", "dropoff_addr",
                           "dropoff_recipient_name", "dropoff_recipient_phone",
                           "pickup_addresses"},
     confirm_dropoff |-> {"api_token", "user_email"},
     confirm_pickup |-> {"api_token", "user_email"},
     get_order_list |-> {},
     get_route_details |-> {"route_id"},
     get_order_by_token |-> {"api_token"},
     track_order_by_id |-> {"order_id"},
     track_order_by_access_key |-> {"access_key"},
     get_driver_location |-> {"order_id"},
     set_delivery_ready |-> {"order_id"},
     set_laboratory_ready |-> {"order_id"},
     set_dropoff_received |-> {"order_id"}]

\* the tool registry: the names under which the tools are registered
RegisteredTools == DOMAIN RequiredParameters

\* C28: every tool name analyze_intent selects is the name of a tool of
\* the tool registry.
C28_SelectedToolIsRegistered ==
    (Analyzed /\ pipeline.intent_analysis.tool # None) =>
        pipeline.intent_analysis.tool \in RegisteredTools

\* C29: the arguments built for a selected tool of the registry contain
\* every parameter the tool declares without a default.
C29_RequiredArgumentsAreBuilt ==
    (pipeline.pc = "extracted" /\ pipeline.intent_analysis.tool \in RegisteredTools) =>
        RequiredParameters[pipeline.intent_analysis.tool] \subseteq DOMAIN pipeline.arguments

\* C30: every argument a tool declares as required is carried into the
\* request the tool builds: when a tool that sent a request is invoked
\* again with another value of a required argument and sends a request,
\* the two requests differ.
C30_RequiredArgumentsReachTheRequest ==
    [][(/\ invocation.pc = "returned"
        /\ Len(outbound) = 1
        /\ invocation'.pc = "awaiting"
        /\ invocation'.tool = invocation.tool
        /\ \E parameter \in RequiredParameters[invocation.tool] :
               invocation'.args[parameter] # invocation.args[parameter]) =>
          outbound' # outbound]_vars
====
